---- MODULE Spec2Model ----
(***************************************************************************)
(* A model of the hatchet layer framework: the PacketParser dispatch walk  *)
(* (src/src/packet/mod.rs) and the cross-layer finalize pass of a Packet   *)
(* (src/src/packet/mod.rs and the layers under src/src/layer).            *)
(***************************************************************************)
EXTENDS Integers, Sequences, FiniteSets, TLC

VARIABLES
    \* ---- PacketParser and one parse_packet call -------------------------
    layer_bindings,   \* PacketParser.layer_bindings: TypeId -> Vec<LayerBinding>
    built_by,         \* the constructor the PacketParser came from: new / without_bindings
    pc,               \* position of the parse_packet call: idle / loop / done
    start_type,       \* the type parameter T of parse_packet::<T>
    input,            \* the input slice of the call
    rest,             \* local `rest`
    current_layer,    \* local `current_layer`
    layers,           \* local `layers`
    trace,            \* what the last loop iteration did (callbacks invoked, in order)
    result,           \* the value parse_packet returned
    \* ---- a Packet and one Packet::finalize call --------------------------
    pkt,              \* Packet.layers
    fpc,              \* position of the finalize call: idle / run / done
    fi,               \* the loop variable i (counted from 1)
    fcalls,           \* the layer finalize calls made so far: index, |prev|, |next|
    pkt0,             \* Packet.layers as they were when finalize was called
    fresult,          \* the value Packet::finalize returned
    \* ---- one Layer::parse call followed by to_bytes on its result --------
    wire_type,        \* the layer type L of L::parse
    wire,             \* the input slice b handed to L::parse
    wpc,              \* position: idle / parsed / written
    parsed,           \* what L::parse returned: Ok((rest, layer)) or Err
    written,          \* what to_bytes returned for the parsed layer
    \* ---- ip::checksum computed, stored into the buffer, and computed again --
    cbuf,             \* the buffer, as a head followed by `count` copies of `fill`
    cfield,           \* 0-based offset of the buffer's checksum field, -1 for none
    cpc,              \* position: idle / computed / stored / verified
    csum,             \* what checksum returned for the buffer with the field zeroed
    cverify           \* what checksum returned for the buffer with the field written

pvars == <<layer_bindings, built_by, pc, start_type, input, rest, current_layer, layers, trace, result>>

fvars == <<pkt, fpc, fi, fcalls, pkt0, fresult>>

cvars == <<wire_type, wire, wpc, parsed, written>>

kvars == <<cbuf, cfield, cpc, csum, cverify>>

vars == <<pvars, fvars, cvars, kvars>>

-----------------------------------------------------------------------------
(* Bounds of the model *)

\* longest input slice handed to parse_packet
MaxInput == 3
\* most bind_layer calls made on one PacketParser
MaxBindings == 2
\* most layers a walk may accumulate before the model stops following it
MaxWalk == 4

Bytes == {0, 1}

RECURSIVE SeqsUpTo(_, _)
SeqsUpTo(S, n) ==
    IF n = 0 THEN {<<>>}
    ELSE LET shorter == SeqsUpTo(S, n - 1)
         IN  shorter \cup {Append(s, x) : s \in {t \in shorter : Len(t) = n - 1}, x \in S}

Inputs == SeqsUpTo(Bytes, MaxInput)

-----------------------------------------------------------------------------
(* Layers known to the parser model.  Layer0, Layer1 and Layer2 are fixed-  *)
(* size layers in the manner of declare_test_layer!; DocLayer is the layer  *)
(* of the bind_layer doc example, whose parse returns its input untouched. *)

LayerTypes == {"Layer0", "Layer1", "Layer2", "DocLayer"}

NoParser == "None"

\* LayerError and PacketError values
LayerIncomplete(n) == [tag |-> "Incomplete", n |-> n]
LayerParse         == [tag |-> "Parse"]
PacketIncomplete(n) == [tag |-> "Incomplete", n |-> n]
PacketLayerError(e) == [tag |-> "LayerError", err |-> e]

\* impl From<LayerError> for PacketError
FromLayerErrorWrapAll(err) == PacketLayerError(err)
FromLayerError(err) ==
    IF err.tag = "Incomplete" THEN PacketIncomplete(err.n) ELSE PacketLayerError(err)

\* wire footprint of each layer type
HeaderLen(t) ==
    CASE t = "Layer0"   -> 1
      [] t = "Layer1"   -> 2
      [] t = "Layer2"   -> 1
      [] t = "DocLayer" -> 0

\* T::parse / T::parse_layer: Ok((rest, layer)) or Err(LayerError).
\* Too few bytes is Incomplete(missing); Layer2 rejects a leading 0 byte as a
\* structural error.
ParseLayer(t, in) ==
    IF Len(in) < HeaderLen(t)
    THEN [ok |-> FALSE, err |-> LayerIncomplete(HeaderLen(t) - Len(in))]
    ELSE IF t = "Layer2" /\ in[1] = 0
    THEN [ok |-> FALSE, err |-> LayerParse]
    ELSE [ok |-> TRUE,
          rest |-> SubSeq(in, HeaderLen(t) + 1, Len(in)),
          layer |-> [type |-> t, data |-> SubSeq(in, 1, HeaderLen(t))]]

\* The closures handed to bind_layer: `ty` is the LayerType of the closure's
\* first parameter, `ret` the parser it answers with, `when` its condition.
Closures ==
    {[ret |-> r, when |-> "always"] : r \in {NoParser, "Layer1", "Layer2", "DocLayer"}}
        \cup {[ret |-> "Layer1", when |-> "peek"]}

\* f(l, rest) for a closure f; a "match" closure is a `match l.field { .. }`
\* whose arms answer arm.ret for arm.val and f.ret for `_`
CallClosure(f, layer, rem) ==
    IF f.when = "peek" /\ (rem = <<>> \/ rem[1] # 1) THEN NoParser
    ELSE IF f.when = "match" /\ (\E a \in f.arms : a.val = layer[f.field])
    THEN (CHOOSE a \in f.arms : a.val = layer[f.field]).ret
    ELSE f.ret

\* the boxed wrapper bind_layer stores: downcast, then call f
CallBinding(b, layer, rem) ==
    IF layer.type # b.ty THEN "panic" ELSE CallClosure(b.f, layer, rem)

\* callbacks.iter().rev(): the order in which the bindings are tried
IterOrderForward(k) == [i \in 1..k |-> i]
IterOrder(k) == [i \in 1..k |-> k + 1 - i]

\* the labelled loop: invoke in IterOrder until one answers Some.
\* Returns the indices invoked, in order, and the parser found.
RECURSIVE RunCallbacks(_, _, _, _, _)
RunCallbacks(cbs, order, pos, layer, rem) ==
    IF pos > Len(order) THEN [calls |-> <<>>, parser |-> NoParser]
    ELSE LET idx == order[pos]
             p   == CallBinding(cbs[idx], layer, rem)
         IN  IF p # NoParser
             THEN [calls |-> <<idx>>, parser |-> p]
             ELSE LET more == RunCallbacks(cbs, order, pos + 1, layer, rem)
                  IN  [calls |-> <<idx>> \o more.calls, parser |-> more.parser]

\* self.layer_bindings.get(&tid) and the search for next_layer_parser
FindNextLayerParser(reg, layer, rem) ==
    IF layer.type \in DOMAIN reg
    THEN RunCallbacks(reg[layer.type], IterOrder(Len(reg[layer.type])), 1, layer, rem)
    ELSE [calls |-> <<>>, parser |-> NoParser]

\* `if rest.is_empty() { break; }`
RestIsEmptyNever(rem) == FALSE
RestIsEmpty(rem) == rem = <<>>

\* one iteration of the loop: what is invoked and found
LoopLookup(reg, layer, rem) ==
    IF RestIsEmpty(rem)
    THEN [calls |-> <<>>, parser |-> NoParser]
    ELSE FindNextLayerParser(reg, layer, rem)

NoTrace == [layer |-> [type |-> "None", data |-> <<>>], rest |-> <<>>,
            calls |-> <<>>, parser |-> NoParser]
NoLayer == [type |-> "None", data |-> <<>>]
NoResult == [kind |-> "none"]

NumBindings(reg) ==
    LET RECURSIVE Sum(_)
        Sum(S) == IF S = {} THEN 0
                  ELSE LET t == CHOOSE x \in S : TRUE
                       IN  Len(reg[t]) + Sum(S \ {t})
    IN  Sum(DOMAIN reg)

-----------------------------------------------------------------------------
(* PacketParser operations *)

\* PacketParser::without_bindings()
ParserInit ==
    /\ layer_bindings = <<>>
    /\ built_by = "without_bindings"
    /\ pc = "idle"
    /\ start_type = "None"
    /\ input = <<>>
    /\ rest = <<>>
    /\ current_layer = NoLayer
    /\ layers = <<>>
    /\ trace = NoTrace
    /\ result = NoResult

\* a registry that files every wrapper in the bucket of Layer0
BindPushOneBucket(reg, ty, f) ==
    IF "Layer0" \in DOMAIN reg
    THEN [reg EXCEPT !["Layer0"] = Append(@, [ty |-> ty, f |-> f])]
    ELSE ("Layer0" :> <<[ty |-> ty, f |-> f]>>) @@ reg

\* the registry after bind_layer::<ty, _>(f)
BindPush(reg, ty, f) ==
    IF ty \in DOMAIN reg
    THEN [reg EXCEPT ![ty] = Append(@, [ty |-> ty, f |-> f])]
    ELSE (ty :> <<[ty |-> ty, f |-> f]>>) @@ reg

\* PacketParser::bind_layer
BindLayer(ty, f) ==
    /\ pc = "idle"
    /\ NumBindings(layer_bindings) < MaxBindings
    /\ layer_bindings' = BindPush(layer_bindings, ty, f)
    /\ UNCHANGED <<built_by, pc, start_type, input, rest, current_layer, layers, trace, result>>
    /\ UNCHANGED <<fvars, cvars, kvars>>

\* the value returned on an error (`?`): the converted error and nothing else
ErrResult(e, ls) == [kind |-> "err", error |-> FromLayerError(e)]

\* parse_packet::<T>(input), up to the loop: T::parse(input)?
\* r is the outcome of T::parse(in).
ParseStartOn(r, T, in) ==
    /\ pc = "idle"
    /\ start_type' = T
    /\ input' = in
    /\ trace' = NoTrace
    /\ IF r.ok
       THEN /\ rest' = r.rest
            /\ current_layer' = r.layer
            /\ layers' = <<>>
            /\ result' = NoResult
            /\ pc' = "loop"
       ELSE /\ result' = ErrResult(r.err, <<>>)
            /\ pc' = "done"
            /\ UNCHANGED <<rest, current_layer, layers>>
    /\ UNCHANGED <<layer_bindings, built_by>>
    /\ UNCHANGED <<fvars, cvars, kvars>>

ParseStart(T, in) == ParseStartOn(ParseLayer(T, in), T, in)

\* `Ok((rest, Packet::from_layers(layers)))` after the last push
OkResultDropRest(rem, ls, cur) == [kind |-> "ok", rest |-> <<>>, layers |-> Append(ls, cur)]
OkResult(rem, ls, cur) == [kind |-> "ok", rest |-> rem, layers |-> Append(ls, cur)]

\* a loop iteration that ends the walk: empty remainder, or no parser found
LoopBreak ==
    /\ pc = "loop"
    /\ LET found == LoopLookup(layer_bindings, current_layer, rest)
       IN  /\ found.parser = NoParser
           /\ trace' = [layer |-> current_layer, rest |-> rest,
                        calls |-> found.calls, parser |-> NoParser]
           /\ layers' = Append(layers, current_layer)
           /\ result' = OkResult(rest, layers, current_layer)
           /\ pc' = "done"
    /\ UNCHANGED <<layer_bindings, built_by, start_type, input, rest, current_layer>>
    /\ UNCHANGED <<fvars, cvars, kvars>>

\* a loop iteration that found a parser: next_layer_parser(rest)?
LoopNextOn(parsers) ==
    /\ pc = "loop"
    /\ Len(layers) < MaxWalk
    /\ LET found == LoopLookup(layer_bindings, current_layer, rest)
       IN  /\ found.parser \notin {NoParser, "panic"}
           /\ trace' = [layer |-> current_layer, rest |-> rest,
                        calls |-> found.calls, parser |-> found.parser]
           /\ LET r == parsers[found.parser]
              IN  IF r.ok
                  THEN /\ rest' = r.rest
                       /\ layers' = Append(layers, current_layer)
                       /\ current_layer' = r.layer
                       /\ pc' = "loop"
                       /\ UNCHANGED result
                  ELSE /\ result' = ErrResult(r.err, layers)
                       /\ pc' = "done"
                       /\ UNCHANGED <<rest, layers, current_layer>>
    /\ UNCHANGED <<layer_bindings, built_by, start_type, input>>
    /\ UNCHANGED <<fvars, cvars, kvars>>

LoopNext == LoopNextOn([t \in LayerTypes |-> ParseLayer(t, rest)])

\* the caller takes the result; the parser is ready for bind_layer or another parse
Return ==
    /\ pc = "done"
    /\ pc' = "idle"
    /\ start_type' = "None"
    /\ input' = <<>>
    /\ rest' = <<>>
    /\ current_layer' = NoLayer
    /\ layers' = <<>>
    /\ trace' = NoTrace
    /\ result' = NoResult
    /\ UNCHANGED <<layer_bindings, built_by>>
    /\ UNCHANGED <<fvars, cvars, kvars>>

\* no Packet is being finalized
NoPacket ==
    /\ pkt = <<>>
    /\ fpc = "idle"
    /\ fi = 1
    /\ fcalls = <<>>
    /\ pkt0 = <<>>
    /\ fresult = NoResult

NoCodec ==
    /\ wire_type = "Raw"
    /\ wire = <<>>
    /\ wpc = "idle"
    /\ parsed = NoResult
    /\ written = NoResult

\* no checksum is being computed
NoChecksum ==
    /\ cbuf = [head |-> <<>>, fill |-> 0, count |-> 0]
    /\ cfield = -1
    /\ cpc = "idle"
    /\ csum = NoResult
    /\ cverify = NoResult

Init == ParserInit /\ NoPacket /\ NoCodec /\ NoChecksum

Next ==
    \/ \E ty \in LayerTypes, f \in Closures : BindLayer(ty, f)
    \/ \E T \in LayerTypes, in \in Inputs : ParseStart(T, in)
    \/ LoopBreak
    \/ LoopNext
    \/ Return

Spec == Init /\ [][Next]_vars

-----------------------------------------------------------------------------
(* Properties of PacketParser::parse_packet *)

TypesOf(ls) == [i \in 1..Len(ls) |-> ls[i].type]

IsPrefix(s, t) == Len(s) <= Len(t) /\ SubSeq(t, 1, Len(s)) = s

\* the bindings of the layer the last iteration looked up
TraceBindings ==
    IF trace.layer.type \in DOMAIN layer_bindings
    THEN layer_bindings[trace.layer.type] ELSE <<>>

C1_CallOrder ==
    LET cbs == TraceBindings
        k   == Len(cbs)
        c   == trace.calls
    IN  (trace.layer.type # "None" /\ trace.rest # <<>> /\ k > 0) =>
            /\ Len(c) >= 1 /\ Len(c) <= k
            /\ \A i \in 1..Len(c) : c[i] = k + 1 - i
            /\ \A i \in 1..(Len(c) - 1) :
                   CallBinding(cbs[c[i]], trace.layer, trace.rest) = NoParser
            /\ trace.parser = CallBinding(cbs[c[Len(c)]], trace.layer, trace.rest)
            /\ (trace.parser = NoParser => Len(c) = k)
            /\ (pc = "loop" => current_layer.type = trace.parser)

C1_Example ==
    (/\ pc = "done" /\ result.kind = "ok" /\ start_type = "Layer0" /\ Len(input) >= 2
     /\ DOMAIN layer_bindings = {"Layer0"}
     /\ layer_bindings["Layer0"] =
            <<[ty |-> "Layer0", f |-> [ret |-> "Layer1", when |-> "always"]],
              [ty |-> "Layer0", f |-> [ret |-> "Layer2", when |-> "always"]]>>)
        => TypesOf(result.layers) = <<"Layer0", "Layer2">>

C1_BindKeeps ==
    \A t \in DOMAIN layer_bindings :
        t \in DOMAIN layer_bindings' /\ IsPrefix(layer_bindings[t], layer_bindings'[t])

\* C1: with a non-empty remainder the bindings b1..bk of the current layer's
\* type are invoked newest first (bk, bk-1, ...), the parser used is the one
\* returned by the first of them that answers Some, older bindings are not
\* invoked past the winner and are consulted only when every newer one
\* answered None; bind_layer only appends.  Binding Layer0->Layer1 and then
\* Layer0->Layer2 makes a parse from Layer0 yield [Layer0, Layer2].
C1_BindingOrder ==
    /\ [](C1_CallOrder /\ C1_Example)
    /\ [][C1_BindKeeps]_vars

\* an older binding won after a newer one answered None
C1_Witness ==
    /\ Len(trace.calls) = 2
    /\ trace.parser # NoParser
    /\ trace.rest # <<>>

\* C2: no binding callback is invoked while the remainder is empty; a layer
\* that consumes all the remaining input is the last layer of the packet, even
\* when a binding registered for its type would answer Some.
C2_EmptyRemainderStops ==
    [][(pc = "loop" /\ rest = <<>>) =>
           /\ pc' = "done"
           /\ trace'.calls = <<>>
           /\ result' = [kind |-> "ok", rest |-> <<>>,
                         layers |-> Append(layers, current_layer)]]_vars

\* the walk ended on an empty remainder although a binding would have matched
C2_Witness ==
    /\ pc = "done" /\ result.kind = "ok"
    /\ trace.layer.type # "None" /\ trace.rest = <<>>
    /\ Len(result.layers) >= 2
    /\ \E i \in 1..Len(TraceBindings) :
           CallBinding(TraceBindings[i], trace.layer, trace.rest) # NoParser

\* every binding of the current layer's type answers None (or there is none)
AllBindingsNone ==
    \/ current_layer.type \notin DOMAIN layer_bindings
    \/ \A i \in 1..Len(layer_bindings[current_layer.type]) :
           CallBinding(layer_bindings[current_layer.type][i], current_layer, rest) = NoParser

\* C3: with a non-empty remainder and no binding answering Some, parse_packet
\* returns Ok with the layers parsed so far, the current layer last, and the
\* remainder unchanged; it is not an error.
C3_NoneStopsCleanly ==
    [][(pc = "loop" /\ rest # <<>> /\ AllBindingsNone) =>
           /\ pc' = "done"
           /\ result' = [kind |-> "ok", rest |-> rest,
                         layers |-> Append(layers, current_layer)]]_vars

\* bindings were consulted, all answered None, and bytes were left over
C3_Witness ==
    /\ pc = "done" /\ result.kind = "ok"
    /\ result.rest # <<>>
    /\ Len(trace.calls) >= 1
    /\ trace.parser = NoParser
    /\ Len(result.layers) >= 2

\* the PacketError a LayerError must surface as
SurfacedError(e) ==
    IF e.tag = "Incomplete" THEN [tag |-> "Incomplete", n |-> e.n]
    ELSE [tag |-> "LayerError", err |-> e]

\* C4: when the parse of the start layer or of a layer chosen by a binding
\* fails, the result is the error alone (no packet of the layers parsed so
\* far): Incomplete(n) surfaces as PacketError::Incomplete(n), every other
\* LayerError e as PacketError::LayerError(e).
C4_ParseFailurePropagates ==
    [][/\ (pc = "idle" /\ pc' # "idle" /\ ~ParseLayer(start_type', input').ok) =>
              /\ pc' = "done"
              /\ result' = [kind |-> "err",
                            error |-> SurfacedError(ParseLayer(start_type', input').err)]
       /\ (pc = "loop" /\ pc' # "idle" /\ trace'.parser # NoParser
              /\ ~ParseLayer(trace'.parser, rest).ok) =>
              /\ pc' = "done"
              /\ result' = [kind |-> "err",
                            error |-> SurfacedError(ParseLayer(trace'.parser, rest).err)]]_vars

\* a layer chosen by a binding ran out of bytes after another layer was parsed
C4_Witness ==
    /\ pc = "done" /\ result.kind = "err"
    /\ result.error.tag = "Incomplete"
    /\ trace.parser # NoParser
    /\ Len(layers) >= 1

-----------------------------------------------------------------------------
(* Layer codecs: to_bytes of each layer, byte for byte (big endian) *)

\* u16::MAX
U16Max == 65535

BE16(x) == <<x \div 256, x % 256>>
BE32(x) == <<x \div 16777216, (x \div 65536) % 256, (x \div 256) % 256, x % 256>>
Zeros(n) == [i \in 1..n |-> 0]

\* the byte strings ss[lo..hi] one after the other
RECURSIVE FlattenRange(_, _, _)
FlattenRange(ss, lo, hi) ==
    IF lo > hi THEN <<>>
    ELSE IF lo = hi THEN ss[lo]
    ELSE LET mid == (lo + hi) \div 2
         IN  FlattenRange(ss, lo, mid) \o FlattenRange(ss, mid + 1, hi)

Flatten(ss) == FlattenRange(ss, 1, Len(ss))

\* IpProtocol ids
ProtoTCP == 6
ProtoIPV6NONXT == 59

\* TcpOption as written on the wire: kind, then length and value when it has them
TcpOptionToBytes(o) ==
    CASE o.kind = "EOL" -> <<0>>
      [] o.kind = "NOP" -> <<1>>
      [] o.kind = "Unknown" -> <<o.id, Len(o.value) + 2>> \o o.value

OptEOL == [kind |-> "EOL"]
OptNOP == [kind |-> "NOP"]

\* Tcp::default()
DefaultTcp ==
    [type |-> "Tcp", sport |-> 0, dport |-> 0, seq |-> 0, ack |-> 0, offset |-> 5,
     flags |-> 0, window |-> 0, checksum |-> 0, urgptr |-> 0, options |-> <<>>]

\* Tcp as DekuWrite lays it out: the 20 fixed bytes, then every option; the
\* offset is a 4-bit field (`bits = "4"`) and only its low four bits are written
TcpToBytes(t) ==
    BE16(t.sport) \o BE16(t.dport) \o BE32(t.seq) \o BE32(t.ack)
        \o <<(t.offset % 16) * 16 + t.flags \div 256, t.flags % 256>>
        \o BE16(t.window) \o BE16(t.checksum) \o BE16(t.urgptr)
        \o Flatten([i \in 1..Len(t.options) |-> TcpOptionToBytes(t.options[i])])

\* TcpOption::read: one option off the front of the options region
TcpOptionRead(d) ==
    IF d[1] = 0 THEN [ok |-> TRUE, opt |-> OptEOL, rest |-> Tail(d)]
    ELSE IF d[1] = 1 THEN [ok |-> TRUE, opt |-> OptNOP, rest |-> Tail(d)]
    ELSE IF Len(d) < 2 THEN [ok |-> FALSE, err |-> LayerIncomplete(1)]
    ELSE IF d[2] < 2 THEN [ok |-> FALSE, err |-> LayerParse]
    ELSE IF Len(d) < d[2] THEN [ok |-> FALSE, err |-> LayerIncomplete(d[2] - Len(d))]
    ELSE [ok |-> TRUE,
          opt |-> [kind |-> "Unknown", id |-> d[1], length |-> d[2],
                   value |-> SubSeq(d, 3, d[2])],
          rest |-> SubSeq(d, d[2] + 1, Len(d))]

\* the `while !option_rest.is_empty()` loop of Tcp::read_options
RECURSIVE ReadTcpOptions(_, _)
ReadTcpOptions(option_rest, tcp_options) ==
    IF option_rest = <<>> THEN [ok |-> TRUE, options |-> tcp_options]
    ELSE LET r == TcpOptionRead(option_rest)
         IN  IF r.ok THEN ReadTcpOptions(r.rest, Append(tcp_options, r.opt))
             ELSE r

\* the widths, in bytes, of the reads that make up the 20 fixed bytes
TcpFieldSizes == <<2, 2, 4, 4, 1, 1, 2, 2, 2>>

\* the width of the read that runs out of input when only n bytes are there
RECURSIVE NeededAt(_, _)
NeededAt(sizes, n) ==
    IF n < Head(sizes) THEN Head(sizes) ELSE NeededAt(Tail(sizes), n - Head(sizes))

FromBE16(d, a) == d[a + 1] * 256 + d[a + 2]
FromBE32(d, a) == ((d[a + 1] * 256 + d[a + 2]) * 256 + d[a + 3]) * 256 + d[a + 4]

\* LayerError::Parse carrying the text of the DekuError::Parse it came from
LayerParseMsg(m) == [tag |-> "Parse", msg |-> m]

\* a parse that takes an offset below 5 to mean "no options"
TcpParseNoOffsetCheck(in) ==
    IF Len(in) < 20 THEN [ok |-> FALSE, err |-> LayerIncomplete(NeededAt(TcpFieldSizes, Len(in)))]
    ELSE LET offset == in[13] \div 16
             rst    == SubSeq(in, 21, Len(in))
             length == IF offset < 5 THEN 0 ELSE (offset - 5) * 4
             opts   == IF length = 0 THEN [ok |-> TRUE, options |-> <<>>]
                       ELSE ReadTcpOptions(SubSeq(rst, 1, length), <<>>)
         IN  IF length > Len(rst)
             THEN [ok |-> FALSE, err |-> LayerParseMsg("not enough data to read tcp options")]
             ELSE IF ~opts.ok THEN opts
             ELSE [ok |-> TRUE,
                   rest |-> SubSeq(rst, length + 1, Len(rst)),
                   layer |-> [type |-> "Tcp", sport |-> FromBE16(in, 0),
                              dport |-> FromBE16(in, 2), seq |-> FromBE32(in, 4),
                              ack |-> FromBE32(in, 8), offset |-> offset,
                              flags |-> (in[13] % 16) * 256 + in[14],
                              window |-> FromBE16(in, 14), checksum |-> FromBE16(in, 16),
                              urgptr |-> FromBE16(in, 18), options |-> opts.options]]

\* Tcp::parse: Tcp::from_bytes with Tcp::read_options for the options
TcpParse(in) ==
    IF Len(in) < 20 THEN [ok |-> FALSE, err |-> LayerIncomplete(NeededAt(TcpFieldSizes, Len(in)))]
    ELSE LET offset == in[13] \div 16
             rst    == SubSeq(in, 21, Len(in))
             length == (offset - 5) * 4
             opts   == IF length = 0 THEN [ok |-> TRUE, options |-> <<>>]
                       ELSE ReadTcpOptions(SubSeq(rst, 1, length), <<>>)
         IN  IF offset < 5
             THEN [ok |-> FALSE, err |-> LayerParseMsg("error: invalid tcp offset")]
             ELSE IF length > Len(rst)
             THEN [ok |-> FALSE, err |-> LayerParseMsg("not enough data to read tcp options")]
             ELSE IF ~opts.ok THEN opts
             ELSE [ok |-> TRUE,
                   rest |-> SubSeq(rst, length + 1, Len(rst)),
                   layer |-> [type |-> "Tcp", sport |-> FromBE16(in, 0),
                              dport |-> FromBE16(in, 2), seq |-> FromBE32(in, 4),
                              ack |-> FromBE32(in, 8), offset |-> offset,
                              flags |-> (in[13] % 16) * 256 + in[14],
                              window |-> FromBE16(in, 14), checksum |-> FromBE16(in, 16),
                              urgptr |-> FromBE16(in, 18), options |-> opts.options]]

\* Udp::default()
DefaultUdp == [type |-> "Udp", sport |-> 0, dport |-> 0, length |-> 0, checksum |-> 0]

UdpToBytes(u) == BE16(u.sport) \o BE16(u.dport) \o BE16(u.length) \o BE16(u.checksum)

\* Ipv4::default(); addresses are kept as their four wire bytes
DefaultIpv4 ==
    [type |-> "Ipv4", version |-> 4, ihl |-> 5, dscp |-> 0, ecn |-> 0, length |-> 0,
     identification |-> 0, flags |-> 0, offset |-> 0, ttl |-> 0, protocol |-> ProtoTCP,
     checksum |-> 0, src |-> <<127, 0, 0, 1>>, dst |-> <<127, 0, 0, 1>>, options |-> <<>>]

\* Ipv4Option with Ipv4OptionType::NOP, as a caller builds it
Ipv4NOP == [copied |-> 0, class |-> 0, option |-> [kind |-> "NOP"]]

\* Ipv4Option as DekuWrite lays it out: copied (1 bit), class (2 bits), the
\* option type (5 bits), then length and value of an Unknown option as stored
Ipv4OptionToBytes(o) ==
    LET first(t) == o.copied * 128 + o.class * 32 + t
    IN  CASE o.option.kind = "EOOL" -> <<first(0)>>
          [] o.option.kind = "NOP"  -> <<first(1)>>
          [] o.option.kind = "Unknown" ->
                <<first(o.option.type_ % 32), o.option.length>> \o o.option.value

\* Ipv4Option::read: one option off the front of the options region
Ipv4OptionRead(d) ==
    LET copied == d[1] \div 128
        class  == (d[1] \div 32) % 4
        t      == d[1] % 32
        opt(o) == [copied |-> copied, class |-> class, option |-> o]
    IN  IF t = 0 THEN [ok |-> TRUE, opt |-> opt([kind |-> "EOOL"]), rest |-> Tail(d)]
        ELSE IF t = 1 THEN [ok |-> TRUE, opt |-> opt([kind |-> "NOP"]), rest |-> Tail(d)]
        ELSE IF Len(d) < 2 THEN [ok |-> FALSE, err |-> LayerIncomplete(1)]
        ELSE IF d[2] < 2 THEN [ok |-> FALSE, err |-> LayerParse]
        ELSE IF Len(d) < d[2] THEN [ok |-> FALSE, err |-> LayerIncomplete(1)]
        ELSE [ok |-> TRUE,
              opt |-> opt([kind |-> "Unknown", type_ |-> t, length |-> d[2],
                           value |-> SubSeq(d, 3, d[2])]),
              rest |-> SubSeq(d, d[2] + 1, Len(d))]

\* a reader that stops at the first End of Option List and drops what follows
RECURSIVE ReadIpv4OptionsStopAtEOOL(_, _)
ReadIpv4OptionsStopAtEOOL(option_rest, ipv4_options) ==
    IF option_rest = <<>> THEN [ok |-> TRUE, options |-> ipv4_options]
    ELSE LET r == Ipv4OptionRead(option_rest)
         IN  IF ~r.ok THEN r
             ELSE IF r.opt.option.kind = "EOOL"
                  THEN [ok |-> TRUE, options |-> Append(ipv4_options, r.opt)]
             ELSE ReadIpv4OptionsStopAtEOOL(r.rest, Append(ipv4_options, r.opt))

\* the `while !option_rest.is_empty()` loop of Ipv4::read_options
RECURSIVE ReadIpv4Options(_, _)
ReadIpv4Options(option_rest, ipv4_options) ==
    IF option_rest = <<>> THEN [ok |-> TRUE, options |-> ipv4_options]
    ELSE LET r == Ipv4OptionRead(option_rest)
         IN  IF r.ok THEN ReadIpv4Options(r.rest, Append(ipv4_options, r.opt))
             ELSE r

Ipv4ToBytes(p) ==
    <<p.version * 16 + p.ihl, p.dscp * 4 + p.ecn>> \o BE16(p.length)
        \o BE16(p.identification) \o <<p.flags * 32 + p.offset \div 256, p.offset % 256>>
        \o <<p.ttl, p.protocol>> \o BE16(p.checksum) \o p.src \o p.dst
        \o Flatten([i \in 1..Len(p.options) |-> Ipv4OptionToBytes(p.options[i])])

\* the widths, in bytes, of the reads that make up the 20 fixed bytes
Ipv4FieldSizes == <<1, 1, 2, 2, 2, 1, 1, 2, 4, 4>>

\* Ipv4::parse: Ipv4::from_bytes with Ipv4::read_options for the options
Ipv4Parse(in) ==
    IF Len(in) < 20 THEN [ok |-> FALSE, err |-> LayerIncomplete(NeededAt(Ipv4FieldSizes, Len(in)))]
    ELSE LET ihl  == in[1] % 16
             rst  == SubSeq(in, 21, Len(in))
             n    == IF ihl > 5 THEN (ihl - 5) * 4 ELSE 0
             opts == IF ihl > 5 THEN ReadIpv4Options(SubSeq(rst, 1, n), <<>>)
                     ELSE [ok |-> TRUE, options |-> <<>>]
         IN  IF n > Len(rst) THEN [ok |-> FALSE, err |-> LayerParse]
             ELSE IF ~opts.ok THEN opts
             ELSE [ok |-> TRUE,
                   rest |-> SubSeq(rst, n + 1, Len(rst)),
                   layer |-> [type |-> "Ipv4", version |-> in[1] \div 16, ihl |-> ihl,
                              dscp |-> in[2] \div 4, ecn |-> in[2] % 4,
                              length |-> FromBE16(in, 2), identification |-> FromBE16(in, 4),
                              flags |-> in[7] \div 32, offset |-> (in[7] % 32) * 256 + in[8],
                              ttl |-> in[9], protocol |-> in[10],
                              checksum |-> FromBE16(in, 10), src |-> SubSeq(in, 13, 16),
                              dst |-> SubSeq(in, 17, 20), options |-> opts.options]]

\* Ipv6::default(); addresses are kept as their sixteen wire bytes
DefaultIpv6 ==
    [type |-> "Ipv6", version |-> 0, ds |-> 0, ecn |-> 0, label |-> 0, length |-> 0,
     next_header |-> ProtoIPV6NONXT, hop_limit |-> 0,
     src |-> <<255>> \o Zeros(15), dst |-> <<255>> \o Zeros(15)]

Ipv6ToBytes(p) ==
    <<p.version * 16 + p.ds \div 4,
      (p.ds % 4) * 64 + p.ecn * 16 + p.label \div 65536,
      (p.label \div 256) % 256, p.label % 256>>
        \o BE16(p.length) \o <<p.next_header, p.hop_limit>> \o p.src \o p.dst

\* Raw { data }
RawLayer(d) == [type |-> "Raw", data |-> d]

\* EtherType::IPv4 on the wire
EtherTypeIPv4 == 2048

\* Ether::default(): zero addresses (six wire bytes each), EtherType::IPv4
DefaultEther ==
    [type |-> "Ether", dst |-> Zeros(6), src |-> Zeros(6), ether_type |-> EtherTypeIPv4]

EtherToBytes(e) == e.dst \o e.src \o BE16(e.ether_type)

\* IcmpType::EchoReply on the wire
IcmpEchoReply == 0

\* Icmp4::default()
DefaultIcmp4 ==
    [type |-> "Icmp4", icmp_type |-> IcmpEchoReply, code |-> 0, checksum |-> 0,
     message |-> 0, data |-> <<>>]

\* Icmp4 as DekuWrite lays it out
Icmp4ToBytes(c) == <<c.icmp_type, c.code>> \o BE16(c.checksum) \o BE32(c.message) \o c.data

\* LayerExt::to_bytes, by concrete type
ToBytes(l) ==
    CASE l.type = "Tcp"  -> TcpToBytes(l)
      [] l.type = "Ether" -> EtherToBytes(l)
      [] l.type = "Icmp4" -> Icmp4ToBytes(l)
      [] l.type = "Udp"  -> UdpToBytes(l)
      [] l.type = "Ipv4" -> Ipv4ToBytes(l)
      [] l.type = "Ipv6" -> Ipv6ToBytes(l)
      [] l.type = "Raw"  -> l.data

\* LayerExt::length: to_bytes().len()
Length(l) == Len(ToBytes(l))

\* byte widths of the reads of Udp::from_bytes, in order
UdpFieldSizes == <<2, 2, 2, 2>>

\* Udp::parse: Udp::from_bytes
UdpParse(in) ==
    IF Len(in) < 8 THEN [ok |-> FALSE, err |-> LayerIncomplete(NeededAt(UdpFieldSizes, Len(in)))]
    ELSE [ok |-> TRUE,
          rest |-> SubSeq(in, 9, Len(in)),
          layer |-> [type |-> "Udp", sport |-> FromBE16(in, 0), dport |-> FromBE16(in, 2),
                     length |-> FromBE16(in, 4), checksum |-> FromBE16(in, 6)]]

\* byte widths of the reads of Ipv6::from_bytes, in order; version, ds, ecn
\* and label share the first four bytes
Ipv6FieldSizes == <<4, 2, 1, 1, 16, 16>>

\* Ipv6::parse: Ipv6::from_bytes; version (4 bits), ds (6), ecn (2), label (20)
Ipv6Parse(in) ==
    IF Len(in) < 40 THEN [ok |-> FALSE, err |-> LayerIncomplete(NeededAt(Ipv6FieldSizes, Len(in)))]
    ELSE [ok |-> TRUE,
          rest |-> SubSeq(in, 41, Len(in)),
          layer |-> [type |-> "Ipv6", version |-> in[1] \div 16,
                     ds |-> (in[1] % 16) * 4 + in[2] \div 64,
                     ecn |-> (in[2] \div 16) % 4,
                     label |-> ((in[2] % 16) * 256 + in[3]) * 256 + in[4],
                     length |-> FromBE16(in, 4), next_header |-> in[7], hop_limit |-> in[8],
                     src |-> SubSeq(in, 9, 24), dst |-> SubSeq(in, 25, 40)]]

\* byte widths of the reads of Ether::from_bytes, in order
EtherFieldSizes == <<6, 6, 2>>

\* Ether::parse: Ether::from_bytes; dst and src are MacAddress([u8; 6]), the
\* EtherType is one big-endian u16
EtherParse(in) ==
    IF Len(in) < 14 THEN [ok |-> FALSE, err |-> LayerIncomplete(NeededAt(EtherFieldSizes, Len(in)))]
    ELSE [ok |-> TRUE,
          rest |-> SubSeq(in, 15, Len(in)),
          layer |-> [type |-> "Ether", dst |-> SubSeq(in, 1, 6), src |-> SubSeq(in, 7, 12),
                     ether_type |-> FromBE16(in, 12)]]

\* byte widths of the reads of Icmp4::from_bytes before `data`, in order
Icmp4FieldSizes == <<1, 1, 2, 4>>

\* Icmp4::parse: Icmp4::from_bytes; `data` counts deku::rest.len() / 8 bytes,
\* which is everything after the message
Icmp4Parse(in) ==
    IF Len(in) < 8 THEN [ok |-> FALSE, err |-> LayerIncomplete(NeededAt(Icmp4FieldSizes, Len(in)))]
    ELSE LET count == Len(in) - 8
         IN  [ok |-> TRUE,
              rest |-> SubSeq(in, 9 + count, Len(in)),
              layer |-> [type |-> "Icmp4", icmp_type |-> in[1], code |-> in[2],
                         checksum |-> FromBE16(in, 2), message |-> FromBE32(in, 4),
                         data |-> SubSeq(in, 9, 8 + count)]]

\* a Raw that takes one byte and hands the others back
RawParseOneByte(in) ==
    IF in = <<>> THEN [ok |-> TRUE, rest |-> <<>>, layer |-> RawLayer(<<>>)]
    ELSE [ok |-> TRUE, rest |-> Tail(in), layer |-> RawLayer(<<Head(in)>>)]

\* Raw::parse: Raw::reader copies the whole remaining slice into data and
\* returns an empty rest
RawParse(in) ==
    [ok |-> TRUE, rest |-> SubSeq(in, Len(in) + 1, Len(in)), layer |-> RawLayer(in)]

\* LayerExt::parse, by concrete type
Parse(ty, in) ==
    CASE ty = "Tcp"   -> TcpParse(in)
      [] ty = "Udp"   -> UdpParse(in)
      [] ty = "Ipv4"  -> Ipv4Parse(in)
      [] ty = "Ipv6"  -> Ipv6Parse(in)
      [] ty = "Ether" -> EtherParse(in)
      [] ty = "Icmp4" -> Icmp4Parse(in)
      [] ty = "Raw"   -> RawParse(in)

\* utils::length_of_layers
RECURSIVE LengthOfLayers(_)
LengthOfLayers(ls) == IF ls = <<>> THEN 0 ELSE Length(Head(ls)) + LengthOfLayers(Tail(ls))

\* utils::data_of_layers
RECURSIVE DataOfLayers(_)
DataOfLayers(ls) == IF ls = <<>> THEN <<>> ELSE ToBytes(Head(ls)) \o DataOfLayers(Tail(ls))

-----------------------------------------------------------------------------
(* ip::checksum *)

\* the k-th 16-bit big-endian word; an odd trailing byte is the high byte
WordAt(d, k) == d[2 * k - 1] * 256 + (IF 2 * k <= Len(d) THEN d[2 * k] ELSE 0)

RECURSIVE SumWords(_, _, _)
SumWords(d, lo, hi) ==
    IF lo > hi THEN 0
    ELSE IF lo = hi THEN WordAt(d, lo)
    ELSE LET mid == (lo + hi) \div 2
         IN  SumWords(d, lo, mid) + SumWords(d, mid + 1, hi)

Checksum(d) ==
    LET sum       == SumWords(d, 1, (Len(d) + 1) \div 2)
        carry_add == (sum % 65536) + (sum \div 65536)
    IN  65535 - (((carry_add % 65536) + (carry_add \div 65536)) % 65536)

\* `sum`, a u32, as its two 16-bit halves, with `ovf` set once an addition
\* has passed u32::MAX
U32(hi, lo, ovf) == [hi |-> hi, lo |-> lo, ovf |-> ovf]

\* `sum += word` on u32: the wrapped sum, and whether the addition overflowed
AddU32(a, b) ==
    LET lo == a.lo + b.lo
        hi == a.hi + b.hi + lo \div 65536
    IN  U32(hi % 65536, lo % 65536, a.ovf \/ b.ovf \/ hi >= 65536)

\* the two loops of checksum over words lo..hi, in u32
RECURSIVE SumWordsU32(_, _, _)
SumWordsU32(d, lo, hi) ==
    IF lo > hi THEN U32(0, 0, FALSE)
    ELSE IF lo = hi THEN U32(0, WordAt(d, lo), FALSE)
    ELSE LET mid == (lo + hi) \div 2
         IN  AddU32(SumWordsU32(d, lo, mid), SumWordsU32(d, mid + 1, hi))

\* a checksum that returns the folded sum without complementing it
ChecksumU32NoComplement(d) ==
    LET sum       == SumWordsU32(d, 1, (Len(d) + 1) \div 2)
        carry_add == sum.lo + sum.hi
    IN  [overflow |-> sum.ovf,
         value |-> ((carry_add % 65536) + (carry_add \div 65536)) % 65536]

\* ip::checksum with `sum` kept at 32 bits: the value a build with wrapping
\* arithmetic returns, and whether a `sum +=` overflowed on the way
ChecksumU32(d) ==
    LET sum       == SumWordsU32(d, 1, (Len(d) + 1) \div 2)
        carry_add == sum.lo + sum.hi
    IN  [overflow |-> sum.ovf,
         value |-> 65535 - (((carry_add % 65536) + (carry_add \div 65536)) % 65536)]

\* what a call of checksum can do: return the value, or, when a `sum +=`
\* overflows, panic in a build with overflow checks and wrap in one without
ChecksumOutcomes(d) ==
    LET r == ChecksumU32(d)
    IN  {[kind |-> "value", value |-> r.value]}
            \cup (IF r.overflow THEN {[kind |-> "panic"]} ELSE {})

\* `data[a] = 0x00; data[b] = 0x00;` on 0-based offsets a, a+1
ClearChecksumBytes(d, a) == [d EXCEPT ![a + 1] = 0, ![a + 2] = 0]

\* Ipv4PseudoHeader::new(ipv4, len).to_bytes()
Ipv4PseudoHeader(ip, len) == ip.src \o ip.dst \o <<0, ip.protocol>> \o BE16(len)

\* Ipv6PseudoHeader::new(ipv6, len).to_bytes()
Ipv6PseudoHeader(ip, len) == ip.src \o ip.dst \o BE32(len) \o <<0, 0, 0, ip.next_header>>

LayerFinalizeErr == [tag |-> "Finalize"]

\* `if let Some(prev_layer) = prev.last()` ... the pseudo header, or none
PseudoHeaderForFirst(prev, len) ==
    IF prev = <<>> THEN [some |-> FALSE, ok |-> TRUE]
    ELSE LET prev_layer == prev[1]
         IN  IF prev_layer.type = "Ipv4"
             THEN IF len > U16Max THEN [some |-> FALSE, ok |-> FALSE]
                  ELSE [some |-> TRUE, ok |-> TRUE, bytes |-> Ipv4PseudoHeader(prev_layer, len)]
             ELSE IF prev_layer.type = "Ipv6"
             THEN [some |-> TRUE, ok |-> TRUE, bytes |-> Ipv6PseudoHeader(prev_layer, len)]
             ELSE [some |-> FALSE, ok |-> TRUE]
PseudoHeaderFor(prev, len) ==
    IF prev = <<>> THEN [some |-> FALSE, ok |-> TRUE]
    ELSE LET prev_layer == prev[Len(prev)]
         IN  IF prev_layer.type = "Ipv4"
             THEN IF len > U16Max THEN [some |-> FALSE, ok |-> FALSE]
                  ELSE [some |-> TRUE, ok |-> TRUE, bytes |-> Ipv4PseudoHeader(prev_layer, len)]
             ELSE IF prev_layer.type = "Ipv6"
             THEN [some |-> TRUE, ok |-> TRUE, bytes |-> Ipv6PseudoHeader(prev_layer, len)]
             ELSE [some |-> FALSE, ok |-> TRUE]

-----------------------------------------------------------------------------
(* finalize of each layer: the layer as the call leaves it, and Ok or Err *)

\* u8::MAX
U8Max == 255

FinOk(l)  == [ok |-> TRUE, layer |-> l]
FinErr(l) == [ok |-> FALSE, layer |-> l, err |-> LayerFinalizeErr]

\* `let pad_amt = 4 * ((data.len() + 3) / 4) - data.len();`
PadAmtFull(len) == 4 - (len % 4)
PadAmt(len) == 4 * ((len + 3) \div 4) - len

\* Tcp::finalize
TcpFinalize(self, prev, next) ==
    LET data       == TcpToBytes(self)
        pad_amt    == PadAmt(Len(data))
        padded     == [self EXCEPT !.options = self.options \o [i \in 1..pad_amt |-> OptEOL]]
        tcp_header == ClearChecksumBytes(TcpToBytes(padded), 16)
        tcp_header_len == Len(tcp_header)
        tcp_payload == DataOfLayers(next)
        tcp_length == tcp_header_len + Len(tcp_payload)
        ph         == PseudoHeaderFor(prev, tcp_length)
        summed     == IF ph.some
                      THEN [padded EXCEPT !.checksum =
                               Checksum(ph.bytes \o tcp_header \o tcp_payload)]
                      ELSE padded
    IN  IF ~ph.ok THEN FinErr(padded)
        ELSE IF tcp_header_len \div 4 > U8Max THEN FinErr(summed)
        ELSE FinOk([summed EXCEPT !.offset = tcp_header_len \div 4])

\* Udp::finalize
UdpFinalizeTruncating(self, prev, next) ==
    LET udp_header  == ClearChecksumBytes(UdpToBytes(self), 6)
        udp_payload == DataOfLayers(next)
        udp_length  == Len(udp_header) + Len(udp_payload)
        sized       == [self EXCEPT !.length = udp_length % (U16Max + 1)]
        ph          == PseudoHeaderFor(prev, udp_length % (U16Max + 1))
    IN  IF ph.some
        THEN FinOk([sized EXCEPT !.checksum = Checksum(ph.bytes \o udp_header \o udp_payload)])
        ELSE FinOk(sized)
UdpFinalize(self, prev, next) ==
    LET udp_header  == ClearChecksumBytes(UdpToBytes(self), 6)
        udp_payload == DataOfLayers(next)
        udp_length  == Len(udp_header) + Len(udp_payload)
        sized       == [self EXCEPT !.length = udp_length]
        ph          == PseudoHeaderFor(prev, udp_length)
    IN  IF udp_length > U16Max THEN FinErr(self)
        ELSE IF ~ph.ok THEN FinErr(sized)
        ELSE IF ph.some
        THEN FinOk([sized EXCEPT !.checksum = Checksum(ph.bytes \o udp_header \o udp_payload)])
        ELSE FinOk(sized)

\* Ipv4::update_checksum
Ipv4UpdateChecksum(self) ==
    [self EXCEPT !.checksum = Checksum(ClearChecksumBytes(Ipv4ToBytes(self), 10))]

\* Ipv4::finalize
Ipv4FinalizeTruncating(self, prev, next) ==
    FinOk(Ipv4UpdateChecksum(
        [self EXCEPT !.length = (Length(self) + LengthOfLayers(next)) % (U16Max + 1)]))
Ipv4FinalizeChecksumFirst(self, prev, next) ==
    LET total == Length(self) + LengthOfLayers(next)
    IN  IF total > U16Max THEN FinErr(self)
        ELSE FinOk([Ipv4UpdateChecksum(self) EXCEPT !.length = total])
Ipv4Finalize(self, prev, next) ==
    LET total == Length(self) + LengthOfLayers(next)
    IN  IF total > U16Max THEN FinErr(self)
        ELSE FinOk(Ipv4UpdateChecksum([self EXCEPT !.length = total]))

\* Ipv6::finalize
Ipv6FinalizeWithHeader(self, prev, next) ==
    LET total == Length(self) + LengthOfLayers(next)
    IN  IF total > U16Max THEN FinErr(self)
        ELSE FinOk([self EXCEPT !.length = total])
Ipv6FinalizeNextHeader(self, prev, next) ==
    LET total == LengthOfLayers(next)
    IN  IF total > U16Max THEN FinErr(self)
        ELSE FinOk([self EXCEPT !.length = total, !.next_header = ProtoTCP])
Ipv6Finalize(self, prev, next) ==
    LET total == LengthOfLayers(next)
    IN  IF total > U16Max THEN FinErr(self)
        ELSE FinOk([self EXCEPT !.length = total])

\* Raw::finalize
RawFinalize(self, prev, next) == FinOk(self)

\* Ether::finalize
EtherFinalize(self, prev, next) == FinOk(self)

\* Icmp4::finalize
\* a finalize that sums the header with the old checksum left in place
Icmp4FinalizeNoClear(self, prev, next) ==
    FinOk([self EXCEPT !.checksum = Checksum(Icmp4ToBytes(self))])

Icmp4Finalize(self, prev, next) ==
    FinOk([self EXCEPT !.checksum = Checksum(ClearChecksumBytes(Icmp4ToBytes(self), 2))])

\* layer.finalize(prev, next), dispatched on the concrete type
LayerFinalize(self, prev, next) ==
    CASE self.type = "Tcp"  -> TcpFinalize(self, prev, next)
      [] self.type = "Udp"  -> UdpFinalize(self, prev, next)
      [] self.type = "Ipv4" -> Ipv4Finalize(self, prev, next)
      [] self.type = "Ipv6" -> Ipv6Finalize(self, prev, next)
      [] self.type = "Raw"  -> RawFinalize(self, prev, next)
      [] self.type = "Ether" -> EtherFinalize(self, prev, next)
      [] self.type = "Icmp4" -> Icmp4Finalize(self, prev, next)

-----------------------------------------------------------------------------
(* Packet *)

\* most layers in a packet
MaxLayers == 3

\* a Tcp built as the tests build it: Tcp::default(), then options.push(NOP)
TcpWithNop == [DefaultTcp EXCEPT !.options = <<OptNOP>>]

\* a Tcp with so many options that its header length / 4 no longer fits a u8
HugeTcp ==
    [DefaultTcp EXCEPT !.options =
        [i \in 1..4 |-> [kind |-> "Unknown", id |-> 30, length |-> U8Max,
                         value |-> Zeros(U8Max - 2)]]]

\* the layers packets are built from
LayerPool ==
    {DefaultIpv4, DefaultIpv6, DefaultTcp, TcpWithNop, DefaultUdp, RawLayer(<<1>>), HugeTcp}

\* slice::split_at_mut(mid)
SplitAt(ls, mid) == <<SubSeq(ls, 1, mid), SubSeq(ls, mid + 1, Len(ls))>>

\* the three slices of iteration i (0-based): prev, current, next
SplitLayersNoPrev(ls, i) ==
    [prev |-> <<>>, current |-> <<ls[i + 1]>>, next |-> SubSeq(ls, i + 2, Len(ls))]
SplitLayers(ls, i) ==
    LET a == SplitAt(ls, i)
        b == SplitAt(a[2], 1)
    IN  [prev |-> a[1], current |-> b[1], next |-> b[2]]

\* `layer.finalize(prev, next)?`: where the pass goes after the call
AfterLayerKeepGoing(r, i) == [pc |-> "run", i |-> i + 1, res |-> NoResult]
AfterLayer(r, i) ==
    IF r.ok THEN [pc |-> "run", i |-> i + 1, res |-> NoResult]
    ELSE [pc |-> "done", i |-> i, res |-> [kind |-> "err", error |-> FromLayerError(r.err)]]

\* Packet::from_layers(layers)
PacketInit ==
    /\ \E n \in 0..MaxLayers : pkt \in [1..n -> LayerPool]
    /\ fpc = "idle"
    /\ fi = 1
    /\ fcalls = <<>>
    /\ pkt0 = <<>>
    /\ fresult = NoResult

\* Packet::finalize is called
FinalizeCall ==
    /\ fpc = "idle"
    /\ fpc' = "run"
    /\ fi' = 1
    /\ fcalls' = <<>>
    /\ pkt0' = pkt
    /\ fresult' = NoResult
    /\ UNCHANGED pkt
    /\ UNCHANGED <<pvars, cvars, kvars>>

\* one iteration of `for i in 0..self.layers.len()`
FinalizeLayer ==
    /\ fpc = "run"
    /\ fi <= Len(pkt)
    /\ LET sp  == SplitLayers(pkt, fi - 1)
           r   == LayerFinalize(sp.current[1], sp.prev, sp.next)
           nxt == AfterLayer(r, fi)
       IN  /\ fcalls' = Append(fcalls, [idx |-> fi, nprev |-> Len(sp.prev),
                                        nnext |-> Len(sp.next), ok |-> r.ok])
           /\ pkt' = sp.prev \o <<r.layer>> \o sp.next
           /\ fpc' = nxt.pc
           /\ fi' = nxt.i
           /\ fresult' = nxt.res
    /\ UNCHANGED pkt0
    /\ UNCHANGED <<pvars, cvars, kvars>>

\* the loop is over: Ok(())
FinalizeOk ==
    /\ fpc = "run"
    /\ fi > Len(pkt)
    /\ fpc' = "done"
    /\ fresult' = [kind |-> "ok"]
    /\ UNCHANGED <<pkt, fi, fcalls, pkt0>>
    /\ UNCHANGED <<pvars, cvars, kvars>>

\* the caller has the result; the packet can be edited or finalized again
FinalizeReturn ==
    /\ fpc = "done"
    /\ fpc' = "idle"
    /\ fi' = 1
    /\ fcalls' = <<>>
    /\ pkt0' = <<>>
    /\ fresult' = NoResult
    /\ UNCHANGED pkt
    /\ UNCHANGED <<pvars, cvars, kvars>>

FinalizeInit == ParserInit /\ PacketInit /\ NoCodec /\ NoChecksum

FinalizeNext ==
    \/ FinalizeCall
    \/ FinalizeLayer
    \/ FinalizeOk
    \/ FinalizeReturn

SpecFinalize == FinalizeInit /\ [][FinalizeNext]_vars

-----------------------------------------------------------------------------
(* A layer's finalize called directly, as the layers' own tests call it:
   `layer.finalize(&prev, &next)` on a value that was built, parsed or edited *)

\* most options a caller pushes onto a Tcp before finalizing it
MaxOptions == 4

\* the 20 fixed bytes of a Tcp header that announces `off` words
TcpFixed(off) == Zeros(12) \o <<off * 16, 2>> \o Zeros(6)

\* byte strings handed to Tcp::parse
TcpWires ==
    {TcpFixed(5), TcpFixed(5) \o <<9>>, TcpFixed(6) \o <<1, 1, 1, 0>>,
     TcpFixed(6) \o <<3, 3, 7, 1, 9>>, TcpFixed(7) \o <<1, 0, 1, 1, 3, 4, 7, 7>>,
     TcpFixed(6), TcpFixed(4) \o <<1, 1, 1, 1>>, TcpFixed(6) \o <<3, 1, 0, 0>>,
     SubSeq(TcpFixed(5), 1, 13)}

\* the Tcp values Tcp::parse returns for them
ParsedTcps == {TcpParse(w).layer : w \in {x \in TcpWires : TcpParse(x).ok}}

\* the 20 fixed bytes of an Ipv4 header that announces `ihl` words
Ipv4Fixed(ihl) ==
    <<64 + ihl, 0, 0, 20, 0, 0, 64, 0, 64, ProtoTCP, 0, 0, 127, 0, 0, 1, 127, 0, 0, 1>>

\* byte strings handed to Ipv4::parse; the first is the header of
\* test_ipv4_checksum_update
Ipv4Wires ==
    {<<69, 0, 2, 7, 15, 69, 64, 0, 128, 6, 170, 187, 145, 254, 160, 237, 65, 208, 228, 223>>,
     Ipv4Fixed(5) \o <<9>>, Ipv4Fixed(6) \o <<1, 1, 1, 0>>,
     Ipv4Fixed(6) \o <<134, 4, 9, 9, 7>>, Ipv4Fixed(7) \o <<1, 0, 1, 1, 134, 3, 7, 1>>,
     Ipv4Fixed(3), Ipv4Fixed(6), Ipv4Fixed(6) \o <<134, 1, 0, 0>>,
     Ipv4Fixed(6) \o <<1, 1, 134, 4>>, SubSeq(Ipv4Fixed(5), 1, 7)}

\* the Ipv4 values Ipv4::parse returns for them
ParsedIpv4s == {Ipv4Parse(w).layer : w \in {x \in Ipv4Wires : Ipv4Parse(x).ok}}

\* a Tcp built with 41 bytes of options: its aligned header is 64 bytes long
WideTcp == [DefaultTcp EXCEPT !.options = [i \in 1..41 |-> OptNOP]]

\* the layer finalize is called on
SelfPool ==
    {DefaultTcp, WideTcp, DefaultUdp, DefaultIpv4, DefaultIpv6, DefaultEther, DefaultIcmp4,
     [DefaultIcmp4 EXCEPT !.data = <<1, 2, 3>>], RawLayer(<<7>>)}
        \cup ParsedTcps \cup ParsedIpv4s

\* the smallest payload that no longer fits an Ipv4 total length
BigPayload == Zeros(U16Max - 19)

\* the `prev` slices of the calls
PrevPool ==
    {<<>>, <<DefaultIpv4>>, <<DefaultIpv6>>, <<RawLayer(<<1>>)>>,
     <<DefaultIpv4, RawLayer(<<1>>)>>}

\* the `next` slices of the calls
NextPool ==
    {<<>>, <<RawLayer(<<>>)>>, <<RawLayer(<<1>>)>>, <<RawLayer(<<1>>), RawLayer(<<2, 3>>)>>,
     <<RawLayer(<<1>>), RawLayer(<<>>), RawLayer(<<2, 3>>)>>,
     <<RawLayer(Zeros(100))>>, <<RawLayer(BigPayload)>>,
     <<RawLayer(BigPayload), RawLayer(Zeros(20))>>}

\* the value, and the slices it will be finalized against
LayerInit ==
    /\ \E self \in SelfPool, prev \in PrevPool, next \in NextPool :
          /\ pkt = prev \o <<self>> \o next
          /\ fi = Len(prev) + 1
    /\ fpc = "idle"
    /\ fcalls = <<>>
    /\ pkt0 = <<>>
    /\ fresult = NoResult

\* `options.push(..)` of a NOP on the public field of a Tcp or an Ipv4
PushOption ==
    /\ fpc = "idle"
    /\ pkt[fi].type \in {"Tcp", "Ipv4"}
    /\ Len(pkt[fi].options) < MaxOptions
    /\ pkt' = [pkt EXCEPT ![fi].options =
                  Append(@, IF pkt[fi].type = "Tcp" THEN OptNOP ELSE Ipv4NOP)]
    /\ UNCHANGED <<fpc, fi, fcalls, pkt0, fresult>>
    /\ UNCHANGED <<pvars, cvars, kvars>>

\* `layer.finalize(&prev, &next)`
DirectFinalize ==
    /\ fpc = "idle"
    /\ LET r == LayerFinalize(pkt[fi], SubSeq(pkt, 1, fi - 1), SubSeq(pkt, fi + 1, Len(pkt)))
       IN  /\ pkt' = [pkt EXCEPT ![fi] = r.layer]
           /\ fresult' = IF r.ok THEN [kind |-> "ok"] ELSE [kind |-> "err", error |-> r.err]
    /\ pkt0' = pkt
    /\ fpc' = "done"
    /\ UNCHANGED <<fi, fcalls>>
    /\ UNCHANGED <<pvars, cvars, kvars>>

\* the caller has the result; the value can be edited or finalized again
DirectReturn ==
    /\ fpc = "done"
    /\ fpc' = "idle"
    /\ pkt0' = <<>>
    /\ fresult' = NoResult
    /\ UNCHANGED <<pkt, fi, fcalls>>
    /\ UNCHANGED <<pvars, cvars, kvars>>

DirectInit == ParserInit /\ LayerInit /\ NoCodec /\ NoChecksum

DirectNext ==
    \/ PushOption
    \/ DirectFinalize
    \/ DirectReturn

SpecLayer == DirectInit /\ [][DirectNext]_vars

-----------------------------------------------------------------------------
(* One L::parse call on a byte string, then to_bytes on the value it returned *)

\* the implementors of LayerExt
CodecTypes == {"Ether", "Ipv4", "Ipv6", "Icmp4", "Tcp", "Udp", "Raw"}

\* every prefix of a byte string, the string itself included
Prefixes(w) == {SubSeq(w, 1, k) : k \in 0..Len(w)}

\* the frame of test_ether_rw
EtherWire == <<254, 255, 32, 0, 1, 0, 0, 0, 1, 0, 0, 0, 8, 0>>

\* an Ipv6 header with every bit field non-zero: version 6, ds 0x2B, ecn 1,
\* label 0x6ABCD, length 2, next header TCP, hop limit 64
Ipv6Wire ==
    <<98, 214, 171, 205, 0, 2, ProtoTCP, 64>>
        \o <<32, 1, 13, 184>> \o Zeros(11) \o <<1>> \o <<254, 128>> \o Zeros(13) \o <<2>>

\* a Udp header: ports 53 and 4660, length 10, checksum 0xBEEF
UdpWire == <<0, 53, 18, 52, 0, 10, 190, 239>>

\* an Icmp4 echo request header: type 8, code 0, checksum 0xF7FD, message 0x00010001
Icmp4Wire == <<8, 0, 247, 253, 0, 1, 0, 1>>

\* bytes that follow a header in the input
Payload == <<222, 173>>

\* Tcp inputs that must be refused: the two should_panic inputs of
\* test_tcp_rw, an offset below 5 followed by bytes, a declared region one
\* byte longer than what follows, and an option that reaches past the region
TcpErrorWires ==
    {<<13, 44, 0, 80, 56, 175, 254, 20, 17, 76, 97, 140, 16, 24, 37, 188, 169, 88, 0, 0>>,
     [i \in 1..20 |-> 255],
     TcpFixed(0) \o Payload, TcpFixed(4) \o <<1, 1, 1, 1>> \o Payload,
     TcpFixed(6) \o <<1, 1, 1>>, TcpFixed(15) \o Zeros(39),
     TcpFixed(6) \o <<1, 1, 3, 4>> \o Payload}

\* byte strings handed to L::parse, by L
CodecWires(ty) ==
    CASE ty = "Ether" -> Prefixes(EtherWire \o Payload)
                            \cup {SubSeq(EtherWire, 1, 12) \o <<18, 52>> \o Payload}
      [] ty = "Ipv6"  -> Prefixes(Ipv6Wire \o Payload)
      [] ty = "Udp"   -> Prefixes(UdpWire \o Payload)
      [] ty = "Icmp4" -> Prefixes(Icmp4Wire \o Payload)
                            \cup {<<200>> \o Tail(Icmp4Wire) \o Payload}
      [] ty = "Raw"   -> Prefixes(Payload \o Payload)
      [] ty = "Tcp"   -> TcpWires \cup {w \o Payload : w \in TcpWires} \cup TcpErrorWires
      [] ty = "Ipv4"  -> Ipv4Wires \cup {w \o Payload : w \in Ipv4Wires}

CodecInit ==
    /\ wire_type \in CodecTypes
    /\ wire \in CodecWires(wire_type)
    /\ wpc = "idle"
    /\ parsed = NoResult
    /\ written = NoResult

\* let (rest, layer) = L::parse(wire)
CodecParse ==
    /\ wpc = "idle"
    /\ parsed' = Parse(wire_type, wire)
    /\ wpc' = "parsed"
    /\ UNCHANGED <<wire_type, wire, written>>
    /\ UNCHANGED <<pvars, fvars, kvars>>

\* layer.to_bytes() on the value parse returned
CodecToBytes ==
    /\ wpc = "parsed"
    /\ parsed.ok
    /\ written' = ToBytes(parsed.layer)
    /\ wpc' = "written"
    /\ UNCHANGED <<wire_type, wire, parsed>>
    /\ UNCHANGED <<pvars, fvars, kvars>>

CodecSpecInit == ParserInit /\ NoPacket /\ CodecInit /\ NoChecksum

CodecNext == CodecParse \/ CodecToBytes

SpecCodec == CodecSpecInit /\ [][CodecNext]_vars

-----------------------------------------------------------------------------
(* Packet::to_bytes: the fold over the layers, one closure call at a time *)

\* a layer type defined outside the crate, in the manner of
\* declare_test_layer!: to_bytes returns its bytes, or the error it is set to
CustomLayer(d, e) == [type |-> "Custom", data |-> d, to_bytes_err |-> e]

NoError == [tag |-> "None"]

\* layer.to_bytes(): Ok(bytes) or Err(LayerError)
LayerToBytes(l) ==
    IF l.type = "Custom"
    THEN IF l.to_bytes_err = NoError THEN [ok |-> TRUE, bytes |-> l.data]
         ELSE [ok |-> FALSE, err |-> l.to_bytes_err]
    ELSE [ok |-> TRUE, bytes |-> ToBytes(l)]

\* a fold closure that passes over a failing layer
FoldStepSkipErr(acc, layer) ==
    LET data == LayerToBytes(layer)
    IN  IF data.ok THEN [ok |-> TRUE, acc |-> acc \o data.bytes]
        ELSE [ok |-> TRUE, acc |-> acc]

\* the closure of the try_fold: `let data = layer.to_bytes()?; acc.extend(data); Ok(acc)`
FoldStep(acc, layer) ==
    LET data == LayerToBytes(layer)
    IN  IF data.ok THEN [ok |-> TRUE, acc |-> acc \o data.bytes]
        ELSE [ok |-> FALSE, err |-> data.err]

\* the layers the serialized packets are built from
BytesPool ==
    {DefaultEther, DefaultIpv4, DefaultTcp, DefaultUdp, RawLayer(<<1>>), RawLayer(<<>>),
     CustomLayer(<<108, 48>>, NoError), CustomLayer(<<108, 49>>, [tag |-> "DekuError"]),
     CustomLayer(<<108, 50>>, LayerIncomplete(1))}

\* Packet::from_layers(layers)
BytesInit ==
    /\ \E n \in 0..MaxLayers : pkt \in [1..n -> BytesPool]
    /\ fpc = "idle"
    /\ fi = 1
    /\ fcalls = <<>>
    /\ pkt0 = <<>>
    /\ fresult = NoResult
    /\ wire_type = "Raw"
    /\ wire = <<>>
    /\ wpc = "idle"
    /\ parsed = NoResult
    /\ written = NoResult

\* Packet::to_bytes is called: try_fold starts from Vec::new()
ToBytesCall ==
    /\ fpc = "idle"
    /\ fresult = NoResult
    /\ fpc' = "fold"
    /\ fi' = 1
    /\ written' = <<>>
    /\ UNCHANGED <<pkt, fcalls, pkt0, fresult>>
    /\ UNCHANGED <<wire_type, wire, wpc, parsed>>
    /\ UNCHANGED <<pvars, kvars>>

\* one layer of the fold; an Err leaves the fold at once, through `?` and
\* From<LayerError> for PacketError, and the accumulator is dropped
ToBytesFold ==
    /\ fpc = "fold"
    /\ fi <= Len(pkt)
    /\ LET r == FoldStep(written, pkt[fi])
       IN  IF r.ok
           THEN /\ written' = r.acc
                /\ fi' = fi + 1
                /\ UNCHANGED <<fpc, fresult>>
           ELSE /\ written' = NoResult
                /\ fpc' = "done"
                /\ fresult' = [kind |-> "err", error |-> FromLayerError(r.err)]
                /\ UNCHANGED fi
    /\ UNCHANGED <<pkt, fcalls, pkt0>>
    /\ UNCHANGED <<wire_type, wire, wpc, parsed>>
    /\ UNCHANGED <<pvars, kvars>>

\* the iterator is exhausted: Ok(acc)
ToBytesOk ==
    /\ fpc = "fold"
    /\ fi > Len(pkt)
    /\ fpc' = "done"
    /\ fresult' = [kind |-> "ok", bytes |-> written]
    /\ written' = NoResult
    /\ UNCHANGED <<pkt, fi, fcalls, pkt0>>
    /\ UNCHANGED <<wire_type, wire, wpc, parsed>>
    /\ UNCHANGED <<pvars, kvars>>

BytesSpecInit == ParserInit /\ BytesInit /\ NoChecksum

BytesNext == ToBytesCall \/ ToBytesFold \/ ToBytesOk

SpecToBytes == BytesSpecInit /\ [][BytesNext]_vars

-----------------------------------------------------------------------------
(* PacketParser::new(): the default bindings, and parse_packet over the
   crate's own layers *)

\* IpProtocol::UDP on the wire
ProtoUDP == 17
\* IpProtocol::ICMP on the wire
ProtoICMP == 1
\* EtherType::IPv6 on the wire
EtherTypeIPv6 == 34525

\* one arm of a closure's match: `val => Some(ret::parse_layer)`
Arm(val, ret) == [val |-> val, ret |-> ret]

\* the closure bound to Ether
EtherClosure ==
    [ret |-> "Raw", when |-> "match", field |-> "ether_type",
     arms |-> {Arm(EtherTypeIPv4, "Ipv4"), Arm(EtherTypeIPv6, "Ipv6")}]

\* the closure bound to Ipv4
Ipv4Closure ==
    [ret |-> "Raw", when |-> "match", field |-> "protocol",
     arms |-> {Arm(ProtoTCP, "Tcp"), Arm(ProtoUDP, "Udp")}]

\* the closure bound to Ipv6
Ipv6Closure ==
    [ret |-> "Raw", when |-> "match", field |-> "next_header",
     arms |-> {Arm(ProtoTCP, "Tcp"), Arm(ProtoUDP, "Udp")}]

\* the closures bound to Tcp and to Udp: Some(Raw::parse_layer)
ToRawClosure == [ret |-> "Raw", when |-> "always"]

\* a registry in which Ipv6 frames are handed to the Ipv4 parser
CreatePacketParserIpv4Only ==
    BindPush(BindPush(BindPush(BindPush(BindPush(<<>>,
        "Ether", [EtherClosure EXCEPT !.arms = {Arm(EtherTypeIPv4, "Ipv4"),
                                                Arm(EtherTypeIPv6, "Ipv4")}]),
        "Ipv4", Ipv4Closure), "Ipv6", Ipv6Closure), "Tcp", ToRawClosure), "Udp", ToRawClosure)

\* bindings::create_packetparser(): five bind_layer calls on an empty registry
CreatePacketParser ==
    BindPush(BindPush(BindPush(BindPush(BindPush(<<>>,
        "Ether", EtherClosure), "Ipv4", Ipv4Closure), "Ipv6", Ipv6Closure),
        "Tcp", ToRawClosure), "Udp", ToRawClosure)

\* an Ethernet header announcing ether type t
EtherHeader(t) == SubSeq(EtherWire, 1, 12) \o BE16(t)

\* an Ipv4 header without options announcing protocol p
Ipv4Header(p) == [Ipv4Fixed(5) EXCEPT ![10] = p]

\* an Ipv6 header announcing next header p
Ipv6Header(p) == [Ipv6Wire EXCEPT ![7] = p]

\* whole frames, outermost header first
Frames ==
    {EtherHeader(EtherTypeIPv4) \o Ipv4Header(ProtoTCP) \o TcpFixed(5) \o Payload,
     EtherHeader(EtherTypeIPv4) \o Ipv4Header(ProtoUDP) \o UdpWire \o Payload,
     EtherHeader(EtherTypeIPv4) \o Ipv4Header(ProtoICMP) \o Icmp4Wire,
     EtherHeader(EtherTypeIPv4) \o Ipv4Fixed(6) \o <<1, 1, 1, 0>> \o TcpFixed(6) \o <<1, 1, 1, 0>>,
     EtherHeader(EtherTypeIPv6) \o Ipv6Header(ProtoTCP) \o TcpFixed(5) \o Payload,
     EtherHeader(EtherTypeIPv6) \o Ipv6Header(ProtoUDP) \o UdpWire \o Payload,
     EtherHeader(EtherTypeIPv6) \o Ipv6Header(ProtoIPV6NONXT) \o Payload,
     EtherHeader(2054) \o Payload,
     EtherHeader(EtherTypeIPv4) \o Ipv4Header(ProtoTCP) \o TcpFixed(4) \o Payload}

\* the byte strings handed to parse_packet::<T>: the frames from T's header
\* on, cut at every length
DefaultInputs(T) ==
    LET skip == CASE T = "Ether" -> 0
                  [] T = "Ipv4"  -> 14
                  [] T = "Ipv6"  -> 14
                  [] OTHER       -> 34
        from(f) == SubSeq(f, skip + 1, Len(f))
        fs == CASE T = "Ipv4" -> {f \in Frames : FromBE16(f, 12) = EtherTypeIPv4}
                [] T = "Ipv6" -> {f \in Frames : FromBE16(f, 12) = EtherTypeIPv6}
                [] T = "Ether" -> Frames
                [] OTHER -> {f \in Frames : FromBE16(f, 12) = EtherTypeIPv4 /\ Len(f) > 34}
    IN  UNION {Prefixes(from(f)) : f \in fs}

\* PacketParser::new() or PacketParser::without_bindings()
DefaultParserInit ==
    /\ built_by \in {"new", "without_bindings"}
    /\ layer_bindings = IF built_by = "new" THEN CreatePacketParser ELSE <<>>
    /\ pc = "idle"
    /\ start_type = "None"
    /\ input = <<>>
    /\ rest = <<>>
    /\ current_layer = NoLayer
    /\ layers = <<>>
    /\ trace = NoTrace
    /\ result = NoResult

DefaultParseStart(T, in) == ParseStartOn(Parse(T, in), T, in)

DefaultLoopNext == LoopNextOn([t \in CodecTypes |-> Parse(t, rest)])

DefaultInit == DefaultParserInit /\ NoPacket /\ NoCodec /\ NoChecksum

DefaultNext ==
    \/ \E T \in CodecTypes : \E in \in DefaultInputs(T) : DefaultParseStart(T, in)
    \/ LoopBreak
    \/ DefaultLoopNext
    \/ Return

SpecDefault == DefaultInit /\ [][DefaultNext]_vars

-----------------------------------------------------------------------------
(* ip::checksum on its own, used as update_checksum and the finalize
   methods use it: computed over the buffer with the checksum field zeroed,
   stored into the field, and computed again over the whole buffer *)

\* longest buffer that is enumerated byte by byte
MaxBuf == 4

\* the bytes of a buffer given as head and fill
BufBytes(b) == b.head \o [i \in 1..b.count |-> b.fill]

\* a buffer given byte by byte
Plain(d) == [head |-> d, fill |-> 0, count |-> 0]

\* the inputs of test_checksum with the checksum field (offsets 10, 11) zeroed
TestChecksumInput ==
    <<69, 0, 0, 115, 0, 0, 64, 0, 64, 17, 0, 0, 192, 168, 0, 1, 192, 168, 0, 199>>

\* the buffers checksum is called on: every buffer of up to MaxBuf bytes over
\* three byte values, the test inputs, and long runs of one byte, among them
\* 65537 words of 0xFFFF (sum = u32::MAX) and 65538 words of 0xFFFF
CheckBuffers ==
    {Plain(d) : d \in SeqsUpTo({0, 1, 255}, MaxBuf)}
        \cup {Plain(TestChecksumInput), Plain(TestChecksumInput \o <<170>>)}
        \cup {[head |-> <<>>, fill |-> 0, count |-> 131077],
              [head |-> <<0, 0>>, fill |-> 255, count |-> 131074],
              [head |-> <<0, 0>>, fill |-> 255, count |-> 131076],
              [head |-> <<0, 0, 18, 52>>, fill |-> 255, count |-> 131076]}

\* the 16-bit aligned offsets at which a buffer of n bytes can hold the field
AlignedFields(n) == {a \in 0..(n - 2) : a % 2 = 0}

\* the buffer with the big-endian value c in its checksum field
WithField(d, a, c) == [d EXCEPT ![a + 1] = c \div 256, ![a + 2] = c % 256]

\* the buffer checksum is first called on: the field, if any, cleared
Cleared(b, a) == IF a = -1 THEN BufBytes(b) ELSE ClearChecksumBytes(BufBytes(b), a)

ChecksumInit ==
    /\ cbuf \in CheckBuffers
    /\ cfield \in {-1} \cup (IF cbuf.count = 0 THEN AlignedFields(Len(cbuf.head)) ELSE {0})
    /\ cpc = "idle"
    /\ csum = NoResult
    /\ cverify = NoResult

\* checksum(&data) with the field cleared
ComputeChecksum ==
    /\ cpc = "idle"
    /\ csum' \in ChecksumOutcomes(Cleared(cbuf, cfield))
    /\ cpc' = "computed"
    /\ UNCHANGED <<cbuf, cfield, cverify>>
    /\ UNCHANGED <<pvars, fvars, cvars>>

\* `self.checksum = checksum(..)`: the value goes into the field
StoreChecksum ==
    /\ cpc = "computed"
    /\ csum.kind = "value"
    /\ cfield # -1
    /\ cpc' = "stored"
    /\ UNCHANGED <<cbuf, cfield, csum, cverify>>
    /\ UNCHANGED <<pvars, fvars, cvars>>

\* checksum(&data) over the buffer as it is now
VerifyChecksum ==
    /\ cpc = "stored"
    /\ cverify' \in ChecksumOutcomes(WithField(Cleared(cbuf, cfield), cfield, csum.value))
    /\ cpc' = "verified"
    /\ UNCHANGED <<cbuf, cfield, csum>>
    /\ UNCHANGED <<pvars, fvars, cvars>>

ChecksumSpecInit == ParserInit /\ NoPacket /\ NoCodec /\ ChecksumInit

ChecksumNext == ComputeChecksum \/ StoreChecksum \/ VerifyChecksum

SpecChecksum == ChecksumSpecInit /\ [][ChecksumNext]_vars

-----------------------------------------------------------------------------
(* A packet of default layers finalized and serialized, again and again *)

\* most finalize calls made on one packet
MaxFinalize == 3

\* L::default() for every layer type of the crate
DefaultPool ==
    {DefaultEther, DefaultIpv4, DefaultIpv6, DefaultIcmp4, DefaultTcp, DefaultUdp,
     RawLayer(<<>>)}

\* Packet::from_layers(layers) with default layers; no bytes taken yet
RepeatInit ==
    /\ \E n \in 1..MaxLayers : pkt \in [1..n -> DefaultPool]
    /\ fpc = "idle"
    /\ fi = 1
    /\ fcalls = <<>>
    /\ pkt0 = <<>>
    /\ fresult = NoResult
    /\ wire_type = "Raw"
    /\ wire = <<>>
    /\ wpc = "idle"
    /\ parsed = NoResult
    /\ written = <<>>

\* finalize has returned; the caller serializes the packet and keeps the bytes
TakeBytes ==
    /\ fpc = "done"
    /\ Len(written) < MaxFinalize
    /\ written' = Append(written, [finalize |-> fresult, bytes |-> DataOfLayers(pkt)])
    /\ fpc' = "idle"
    /\ fi' = 1
    /\ fcalls' = <<>>
    /\ pkt0' = <<>>
    /\ fresult' = NoResult
    /\ UNCHANGED pkt
    /\ UNCHANGED <<wire_type, wire, wpc, parsed>>
    /\ UNCHANGED <<pvars, kvars>>

RepeatSpecInit == ParserInit /\ RepeatInit /\ NoChecksum

RepeatNext ==
    \/ FinalizeCall
    \/ FinalizeLayer
    \/ FinalizeOk
    \/ TakeBytes

SpecRepeat == RepeatSpecInit /\ [][RepeatNext]_vars

-----------------------------------------------------------------------------
(* Packet::finalize: the pass *)

\* the slices behind layer i (1-based) of the packet, and ahead of it
PrevOf(i) == SubSeq(pkt, 1, i - 1)
NextOf(i) == SubSeq(pkt, i + 1, Len(pkt))

\* the k-th finalize call of the pass was on layer k-1 with k-1 layers behind
\* it and the rest ahead
C5_CallsInOrder ==
    \A k \in 1..Len(fcalls) :
        /\ fcalls[k].idx = k
        /\ fcalls[k].nprev = k - 1
        /\ fcalls[k].nnext = Len(pkt) - k

\* the slices handed to the call on layer i are layers [0..i) and [i+1..n)
C5_Slices ==
    \A i \in 0..Len(pkt) - 1 :
        /\ SplitLayers(pkt, i).prev = PrevOf(i + 1)
        /\ SplitLayers(pkt, i).current = <<pkt[i + 1]>>
        /\ SplitLayers(pkt, i).next = NextOf(i + 1)

\* C5: Packet::finalize is a single left-to-right pass: while it runs it has
\* called finalize on layers 0..fi-2 in that order, once each, each call with
\* prev = layers [0..i) and next = layers [i+1..n); when it returns Ok it has
\* called every layer, and none for an empty packet.
C5_SinglePass ==
    /\ C5_CallsInOrder
    /\ C5_Slices
    /\ fpc = "run" => Len(fcalls) = fi - 1
    /\ (fpc = "done" /\ fresult.kind = "ok") => Len(fcalls) = Len(pkt)

\* a pass over three layers has returned Ok
C5_Witness ==
    /\ fpc = "done"
    /\ fresult.kind = "ok"
    /\ Len(pkt) = 3
    /\ Len(fcalls) = 3

\* C6: a layer's finalize error aborts Packet::finalize at once: every call
\* but the last one made succeeded, a failed call ends the pass with the
\* Finalize error wrapped in a PacketError, no later layer is called, and the
\* later layers are as they were before the pass.
C6_ErrorAborts ==
    /\ \A k \in 1..Len(fcalls) - 1 : fcalls[k].ok
    /\ (Len(fcalls) > 0 /\ ~fcalls[Len(fcalls)].ok) =>
          /\ fpc = "done"
          /\ fresult = [kind |-> "err", error |-> PacketLayerError(LayerFinalizeErr)]
          /\ Len(fcalls) = fi
          /\ Len(pkt) = Len(pkt0)
          /\ \A j \in fi + 1..Len(pkt) : pkt[j] = pkt0[j]
    /\ (fpc = "done" /\ Len(fcalls) > 0 /\ fresult.kind = "ok") => fcalls[Len(fcalls)].ok

\* the second of three layers failed, with one layer still ahead of it
C6_Witness ==
    /\ fpc = "done"
    /\ fresult.kind = "err"
    /\ Len(pkt) = 3
    /\ fi = 2
    /\ Len(fcalls) = 2

\* C7: after Packet::finalize returns Ok, every Ipv4 layer's length field is
\* its own serialized length plus the serialized lengths of all later layers
\* as they then are.
C7_Ipv4LengthAfterFinalize ==
    (fpc = "done" /\ fresult.kind = "ok") =>
        \A i \in 1..Len(pkt) :
            pkt[i].type = "Ipv4" =>
                pkt[i].length = Length(pkt[i]) + LengthOfLayers(NextOf(i))

-----------------------------------------------------------------------------
(* Tcp::finalize and Udp::finalize, called directly *)

\* a direct call on a layer of type ty has returned Ok, behind an Ipv4 or Ipv6
DirectOkAfterIp(ty) ==
    /\ fpc = "done"
    /\ fcalls = <<>>
    /\ fresult.kind = "ok"
    /\ pkt[fi].type = ty
    /\ fi > 1
    /\ pkt[fi - 1].type \in {"Ipv4", "Ipv6"}

\* pseudo_header || H || payload for the header bytes H of the layer at fi
ChecksumInput(H) ==
    LET payload == DataOfLayers(NextOf(fi))
    IN  PseudoHeaderFor(PrevOf(fi), Len(H) + Len(payload)).bytes \o H \o payload

\* C8: after a successful Tcp::finalize behind an Ipv4 or Ipv6, the stored
\* checksum is the Internet checksum of pseudo_header || H || payload with H
\* the header as it serializes after the call (options padded, final offset)
\* and bytes 16-17 zeroed.
C8_TcpChecksumOverFinalHeader ==
    DirectOkAfterIp("Tcp") =>
        pkt[fi].checksum = Checksum(ChecksumInput(ClearChecksumBytes(TcpToBytes(pkt[fi]), 16)))

\* C9: after a successful Udp::finalize behind an Ipv4 or Ipv6, the length is
\* 8 + the bytes of the next layers and the stored checksum is the Internet
\* checksum of pseudo_header || H || payload with H the 8-byte header that
\* carries the new length and bytes 6-7 zeroed.
C9_UdpChecksumOverNewLength ==
    DirectOkAfterIp("Udp") =>
        /\ pkt[fi].length = 8 + LengthOfLayers(NextOf(fi))
        /\ pkt[fi].checksum = Checksum(ChecksumInput(ClearChecksumBytes(UdpToBytes(pkt[fi]), 6)))

\* C10: every Tcp value, parsed, built or edited, serializes to exactly
\* offset * 4 bytes, and after a successful Tcp::finalize that length is a
\* multiple of 4.
C10_TcpLengthIsOffset ==
    /\ pkt[fi].type = "Tcp" => Len(TcpToBytes(pkt[fi])) = pkt[fi].offset * 4
    /\ (fpc = "done" /\ fresult.kind = "ok" /\ pkt[fi].type = "Tcp") =>
          Len(TcpToBytes(pkt[fi])) % 4 = 0

\* a direct finalize call on a layer of type ty has returned
DirectDone(ty) ==
    /\ fpc = "done"
    /\ fcalls = <<>>
    /\ pkt[fi].type = ty

\* C11: Tcp::finalize appends only EOL options: the options it found stay
\* as a prefix, the number appended is the one k in 0..3 that makes the header
\* length a multiple of 4, and on Ok the offset is that length / 4; the
\* default Tcp with two NOPs becomes [NOP, NOP, EOL, EOL] with offset 6.
C11_TcpAlignment ==
    DirectDone("Tcp") =>
        LET before == pkt0[fi]
            after  == pkt[fi]
            n      == Len(before.options)
            k      == Len(after.options) - n
        IN  /\ k \in 0..3
            /\ SubSeq(after.options, 1, n) = before.options
            /\ \A j \in n + 1..n + k : after.options[j] = OptEOL
            /\ (Len(TcpToBytes(before)) + k) % 4 = 0
            /\ Len(TcpToBytes(after)) = Len(TcpToBytes(before)) + k
            /\ fresult.kind = "ok" => after.offset = Len(TcpToBytes(after)) \div 4
            /\ (fresult.kind = "ok" /\ before = [DefaultTcp EXCEPT !.options = <<OptNOP, OptNOP>>]) =>
                  /\ after.options = <<OptNOP, OptNOP, OptEOL, OptEOL>>
                  /\ after.offset = 6

\* the default Tcp with two NOPs pushed has been finalized
C11_Witness ==
    /\ DirectDone("Tcp")
    /\ fresult.kind = "ok"
    /\ pkt0[fi].options = <<OptNOP, OptNOP>>
    /\ Len(pkt[fi].options) = 4

\* C12: Tcp::finalize never succeeds with an offset that does not fit the
\* 4-bit wire field: a header longer than 60 bytes is a Finalize error.
C12_OffsetFitsFourBits ==
    (DirectDone("Tcp") /\ fresult.kind = "ok") => pkt[fi].offset <= 15

\* the layer right behind the one finalize was called on is an Ipv4 or Ipv6
BehindIp == fi > 1 /\ pkt[fi - 1].type \in {"Ipv4", "Ipv6"}

\* C13: Tcp::finalize leaves the checksum as it was when prev is empty or
\* prev.last() is neither Ipv4 nor Ipv6, even if an Ipv4 or Ipv6 sits earlier
\* in prev.
C13_ChecksumUntouched ==
    (DirectDone("Tcp") /\ ~BehindIp) => pkt[fi].checksum = pkt0[fi].checksum

\* finalize has returned Ok on a Tcp behind [Ipv4, Raw]
C13_Witness ==
    /\ DirectDone("Tcp")
    /\ fresult.kind = "ok"
    /\ fi = 3
    /\ pkt[1].type = "Ipv4"
    /\ pkt[2].type = "Raw"

-----------------------------------------------------------------------------
(* what a layer's finalize may write *)

\* records a and b agree on every field outside F
SameExcept(a, b, F) ==
    /\ DOMAIN a = DOMAIN b
    /\ \A f \in DOMAIN a \ F : a[f] = b[f]

\* the fields the finalize of a layer of type ty depends on and recomputes
DependentFields(ty) ==
    CASE ty = "Tcp"   -> {"checksum", "offset", "options"}
      [] ty = "Udp"   -> {"checksum", "length"}
      [] ty = "Ipv4"  -> {"checksum", "length"}
      [] ty = "Ipv6"  -> {"length"}
      [] ty = "Icmp4" -> {"checksum"}
      [] OTHER        -> {}

\* C14: a layer's finalize changes only its dependent fields (Tcp: checksum,
\* offset, options; Udp and Ipv4: checksum, length; Ipv6: length; Icmp4:
\* checksum; Raw and Ether: nothing), and the prev and next layers are as they
\* were.
C14_FinalizeFrame ==
    (fpc = "done" /\ fcalls = <<>>) =>
        /\ Len(pkt) = Len(pkt0)
        /\ SameExcept(pkt0[fi], pkt[fi], DependentFields(pkt0[fi].type))
        /\ \A j \in (1..Len(pkt)) \ {fi} : pkt[j] = pkt0[j]

\* an Ipv6 with layers on both sides has been finalized and its length rewritten
C14_Witness ==
    /\ DirectDone("Ipv6")
    /\ fresult.kind = "ok"
    /\ 1 < fi
    /\ fi < Len(pkt)
    /\ pkt[fi].length # pkt0[fi].length

-----------------------------------------------------------------------------
(* Ipv4::finalize, Udp::finalize and Ipv6::finalize: the length fields *)

\* C15: Ipv4::finalize sets length to its own serialized length plus the
\* lengths of the next layers, whatever prev is and with nothing added for
\* empty next layers; when that sum exceeds 65535 it returns a Finalize error
\* and the length is the one it had.
C15_Ipv4Length ==
    DirectDone("Ipv4") =>
        LET total == Length(pkt0[fi]) + LengthOfLayers(NextOf(fi))
        IN  IF total <= U16Max
            THEN /\ fresult.kind = "ok"
                 /\ pkt[fi].length = total
            ELSE /\ fresult = [kind |-> "err", error |-> LayerFinalizeErr]
                 /\ pkt[fi].length = pkt0[fi].length

\* Ipv4::finalize has failed on a total of more than 65535 bytes
C15_Witness ==
    /\ DirectDone("Ipv4")
    /\ fresult.kind = "err"
    /\ Length(pkt[fi]) + LengthOfLayers(NextOf(fi)) > U16Max

C17_Ipv4LengthIsIhl ==
    pkt[fi].type = "Ipv4" => Len(Ipv4ToBytes(pkt[fi])) = pkt[fi].ihl * 4

\* C18: Udp::finalize sets length to 8 plus the bytes of the next layers,
\* with or without a previous layer; when that exceeds 65535 it returns a
\* Finalize error and length and checksum are the ones it had.
C18_UdpLength ==
    DirectDone("Udp") =>
        LET total == 8 + LengthOfLayers(NextOf(fi))
        IN  IF total <= U16Max
            THEN /\ fresult.kind = "ok"
                 /\ pkt[fi].length = total
            ELSE /\ fresult = [kind |-> "err", error |-> LayerFinalizeErr]
                 /\ pkt[fi].length = pkt0[fi].length
                 /\ pkt[fi].checksum = pkt0[fi].checksum

\* Udp::finalize has failed, behind an Ipv4, on more than 65535 bytes
C18_Witness ==
    /\ DirectDone("Udp")
    /\ fresult.kind = "err"
    /\ BehindIp
    /\ 8 + LengthOfLayers(NextOf(fi)) > U16Max

\* C19: Ipv6::finalize sets length to the sum of the lengths of the next
\* layers only, without its own 40 bytes and without prev; when that sum
\* exceeds 65535 it returns a Finalize error and the length is the one it had.
C19_Ipv6Length ==
    DirectDone("Ipv6") =>
        LET total == LengthOfLayers(NextOf(fi))
        IN  IF total <= U16Max
            THEN /\ fresult.kind = "ok"
                 /\ pkt[fi].length = total
            ELSE /\ fresult = [kind |-> "err", error |-> LayerFinalizeErr]
                 /\ pkt[fi].length = pkt0[fi].length

\* Ipv6::finalize has returned Ok with layers behind it and a payload ahead
C19_Witness ==
    /\ DirectDone("Ipv6")
    /\ fresult.kind = "ok"
    /\ fi > 1
    /\ pkt[fi].length = LengthOfLayers(NextOf(fi))
    /\ pkt[fi].length > 0

\* C20: for every layer type L, when L::parse accepts a byte string b, to_bytes
\* of the parsed value yields exactly the prefix of b that parse consumed, and
\* that prefix followed by the remainder parse returned is b.
C20_RoundTrip ==
    wpc = "written" =>
        LET consumed == Len(wire) - Len(parsed.rest)
        IN  /\ consumed >= 0
            /\ written = SubSeq(wire, 1, consumed)
            /\ written \o parsed.rest = wire

\* an Ipv4 header with options, an End of Option List among them, followed by
\* payload bytes, parsed and written back
C20_Witness ==
    /\ wpc = "written"
    /\ wire_type = "Ipv4"
    /\ Len(parsed.layer.options) > 1
    /\ \E i \in 1..Len(parsed.layer.options) : parsed.layer.options[i].option.kind = "EOOL"
    /\ parsed.rest = Payload
    /\ written \o parsed.rest = wire

\* the layers of the packet whose to_bytes fails
FailingLayers == {i \in 1..Len(pkt) : ~LayerToBytes(pkt[i]).ok}

\* C21: Packet::to_bytes returns the concatenation of each layer's to_bytes in
\* layer order, so its length is the sum of the layers' lengths; an empty
\* packet yields an empty buffer; if a layer's to_bytes fails the call fails
\* with that layer's error and carries no buffer.
C21_PacketToBytes ==
    fpc = "done" =>
        IF FailingLayers = {}
        THEN /\ fresult.kind = "ok"
             /\ fresult.bytes = Flatten([i \in 1..Len(pkt) |-> LayerToBytes(pkt[i]).bytes])
             /\ \A i \in 1..Len(pkt) :
                    LET before == Len(Flatten([j \in 1..(i - 1) |-> LayerToBytes(pkt[j]).bytes]))
                        mine   == LayerToBytes(pkt[i]).bytes
                    IN  SubSeq(fresult.bytes, before + 1, before + Len(mine)) = mine
             /\ pkt = <<>> => fresult.bytes = <<>>
        ELSE LET first == CHOOSE i \in FailingLayers : \A j \in FailingLayers : i <= j
             IN  /\ fresult = [kind |-> "err",
                               error |-> FromLayerError(LayerToBytes(pkt[first]).err)]
                 /\ written = NoResult

\* three layers of different types serialized into one buffer
C21_Witness ==
    /\ fpc = "done"
    /\ fresult.kind = "ok"
    /\ Len(pkt) = 3
    /\ pkt[1] = DefaultEther /\ pkt[2] = DefaultIpv4 /\ pkt[3] = DefaultTcp
    /\ Len(fresult.bytes) = 14 + 20 + 20

\* the next layer the claimed default bindings choose for a layer
ClaimedNext(l) ==
    CASE l.type = "Ether" -> IF l.ether_type = EtherTypeIPv4 THEN "Ipv4"
                             ELSE IF l.ether_type = EtherTypeIPv6 THEN "Ipv6" ELSE "Raw"
      [] l.type = "Ipv4"  -> IF l.protocol = ProtoTCP THEN "Tcp"
                             ELSE IF l.protocol = ProtoUDP THEN "Udp" ELSE "Raw"
      [] l.type = "Ipv6"  -> IF l.next_header = ProtoTCP THEN "Tcp"
                             ELSE IF l.next_header = ProtoUDP THEN "Udp" ELSE "Raw"
      [] l.type = "Tcp"   -> "Raw"
      [] l.type = "Udp"   -> "Raw"
      [] OTHER            -> NoParser

TcpOptionBytes(opts) == Flatten([i \in 1..Len(opts) |-> TcpOptionToBytes(opts[i])])

\* C23: with the 20 fixed bytes present, Tcp::parse refuses an offset below 5
\* with Parse("error: invalid tcp offset") and a declared options region
\* longer than the bytes that follow with Parse("not enough data to read tcp
\* options"), returning no Tcp value; the options of an accepted header are
\* exactly the declared region, and whether and what is parsed does not depend
\* on the bytes after that region.
C23_TcpOffsetErrors ==
    (wire_type = "Tcp" /\ wpc # "idle" /\ Len(wire) >= 20) =>
        LET offset == wire[13] \div 16
            region == (offset - 5) * 4
        IN  /\ offset < 5 =>
                parsed = [ok |-> FALSE, err |-> LayerParseMsg("error: invalid tcp offset")]
            /\ (offset >= 5 /\ region > Len(wire) - 20) =>
                parsed = [ok |-> FALSE,
                          err |-> LayerParseMsg("not enough data to read tcp options")]
            /\ (offset >= 5 /\ region <= Len(wire) - 20) =>
                LET cut == Parse("Tcp", SubSeq(wire, 1, 20 + region))
                IN  /\ cut.ok = parsed.ok
                    /\ parsed.ok =>
                        /\ parsed.layer = cut.layer
                        /\ TcpOptionBytes(parsed.layer.options) = SubSeq(wire, 21, 20 + region)
                        /\ parsed.rest = SubSeq(wire, 21 + region, Len(wire))
                    /\ ~parsed.ok => parsed.err = cut.err

\* the first should_panic input of test_tcp_rw, offset 1, was refused
C23_Witness ==
    /\ wire_type = "Tcp"
    /\ wpc = "parsed"
    /\ Len(wire) = 20
    /\ wire[13] \div 16 = 1
    /\ ~parsed.ok
    /\ parsed.err.tag = "Parse"

\* C24: with the 20 fixed bytes present, Ipv4::parse refuses an ihl below 5
\* with a Parse error and never returns a value whose ihl is below 5.
C24_Ipv4IhlRejected ==
    (wire_type = "Ipv4" /\ wpc # "idle" /\ Len(wire) >= 20 /\ wire[1] % 16 < 5) =>
        /\ ~parsed.ok
        /\ parsed.err.tag = "Parse"

\* C25: for a buffer of zero bytes only, of any length, 0 and odd lengths
\* included, checksum returns 0xFFFF.
C25_ZeroBufferChecksum ==
    (cpc # "idle" /\ cbuf.head \in Seq({0}) /\ (cbuf.count > 0 => cbuf.fill = 0)) =>
        csum = [kind |-> "value", value |-> 65535]

\* 131077 zero bytes, an odd length, summed to 0xFFFF
C25_Witness ==
    /\ cpc = "computed"
    /\ cbuf.fill = 0
    /\ cbuf.count = 131077
    /\ csum = [kind |-> "value", value |-> 65535]

\* C26: for every buffer holding a 16-bit aligned checksum field, checksum of
\* the buffer with the field zeroed returns a value, and with that value
\* written into the field checksum of the buffer returns 0.
C26_ChecksumVerifies ==
    /\ (cpc # "idle" /\ cfield # -1) => csum.kind = "value"
    /\ cpc = "verified" => cverify = [kind |-> "value", value |-> 0]

\* C27: on a packet holding one default layer of any kind every finalize
\* succeeds, and the bytes after each further finalize are the bytes after
\* the first.
C27_FinalizeIdempotentOnDefault ==
    Len(pkt) = 1 =>
        /\ fpc = "done" => fresult = [kind |-> "ok"]
        /\ \A i \in 1..Len(written) :
              /\ written[i].finalize = [kind |-> "ok"]
              /\ written[i].bytes = written[1].bytes

\* a default Icmp4, whose finalize changes its checksum, finalized twice
C27_Witness ==
    /\ Len(pkt) = 1
    /\ pkt[1].type = "Icmp4"
    /\ Len(written) >= 2
    /\ written[1].bytes # Icmp4ToBytes(DefaultIcmp4)
    /\ written[2].bytes = written[1].bytes

\* C28: parse_packet runs to completion for every input and every registry.
\* The loop is deterministic in the current layer, the remainder and the
\* registry, so it can only come to an end if no iteration that continues the
\* walk hands the next iteration the current layer and remainder it started
\* from.
C28_WalkNeverRepeats ==
    [][(pc = "loop" /\ pc' = "loop") =>
           <<current_layer', rest'>> # <<current_layer, rest>>]_vars

\* C29: with the default bindings every successful parse_packet::<Ether>
\* returns an empty remainder and at most 4 layers, the first of them Ether,
\* and a Raw layer only as the last one.
C29_DefaultWalkShape ==
    (built_by = "new" /\ start_type = "Ether" /\ pc = "done" /\ result.kind = "ok") =>
        /\ result.rest = <<>>
        /\ Len(result.layers) \in 1..4
        /\ result.layers[1].type = "Ether"
        /\ \A i \in 1..Len(result.layers) :
              result.layers[i].type = "Raw" => i = Len(result.layers)

\* Ether, Ipv4, Tcp and the payload as Raw: four layers, nothing left over
C29_Witness ==
    /\ built_by = "new" /\ start_type = "Ether" /\ pc = "done" /\ result.kind = "ok"
    /\ Len(result.layers) = 4
    /\ [i \in 1..4 |-> result.layers[i].type] = <<"Ether", "Ipv4", "Tcp", "Raw">>
    /\ result.layers[4].data = Payload
    /\ result.rest = <<>>

\* C30: a binding callback is only ever invoked with a current layer of the
\* type it was registered for, whatever the order of the bind_layer calls:
\* every wrapper sits in the bucket of its own LayerType, the callbacks the
\* last iteration invoked were registered for the layer they were given, and
\* no lookup of the walk ends in the failed downcast.
C30_DowncastNeverFails ==
    /\ \A t \in DOMAIN layer_bindings :
          \A i \in 1..Len(layer_bindings[t]) : layer_bindings[t][i].ty = t
    /\ \A k \in 1..Len(trace.calls) :
          layer_bindings[trace.layer.type][trace.calls[k]].ty = trace.layer.type
    /\ pc = "loop" =>
          LoopLookup(layer_bindings, current_layer, rest).parser # "panic"

\* bindings on two different layer types, both invoked in one walk
C30_Witness ==
    /\ pc = "loop"
    /\ DOMAIN layer_bindings = {"Layer0", "Layer2"}
    /\ TypesOf(layers) = <<"Layer0", "Layer2">>
    /\ current_layer.type = "Layer2"
    /\ trace.layer.type = "Layer2" /\ trace.calls = <<1>>

====
